---- MODULE Spec2Model ----
(***************************************************************************)
(* WASVD: the WAT validator (validator.rs), the block-tree assembly        *)
(* (instruction.rs) and the identifier tables (ValueMapping).              *)
(*                                                                         *)
(* Conventions.                                                            *)
(*   - A Rust String is a sequence of one-character strings, so that       *)
(*     str::parse::<usize> and usize::to_string are computed, not assumed. *)
(*   - Option<T> is a sequence of length <= 1: None == <<>>, Some(x) ==    *)
(*     <<x>>.                                                              *)
(*   - A Vec used as a stack has its top at the END of the sequence        *)
(*     (Vec::push / Vec::pop).                                             *)
(*   - A WatResult is carried as an error kind; NoErr is Ok, "PANIC" is an *)
(*     abort (a failed assert!), which is not an error value.              *)
(***************************************************************************)
EXTENDS Integers, Sequences, FiniteSets, TLC

\* ------------------------------------------------------------------ bounds
MaxStack == 3
MaxDepth == 1
MaxBrDepth == 2
MaxStream == 5
MaxEntries == 2
MaxLowerStack == 2
MaxFields == 3
MaxFrStack == 2
MaxFrDepth == 1
MaxDStack == 3
\* the words of the i64 constants converted to u32: 0..MaxHighWord, 0..MaxLowWord
MaxHighWord == 2
MaxLowWord == 40

\* ----------------------------------------------------------------- strings
None == <<>>
Some(x) == <<x>>

Digits == <<"0", "1", "2", "3", "4", "5", "6", "7", "8", "9">>

IsDigit(c) == \E d \in 1..10 : Digits[d] = c

DigitVal(c) == (CHOOSE d \in 1..10 : Digits[d] = c) - 1

RECURSIVE DigitsValue(_)
DigitsValue(s) ==
    IF s = <<>> THEN 0
    ELSE 10 * DigitsValue(SubSeq(s, 1, Len(s) - 1)) + DigitVal(s[Len(s)])

\* str::parse::<usize>: an optional leading "+", then one or more decimal
\* digits (leading zeros allowed); anything else is an error, here -1.
\* (Overflow of usize cannot happen for the strings of this model.)
ParseUsize(s) ==
    LET body == IF s # <<>> /\ s[1] = "+" THEN Tail(s) ELSE s
    IN  IF body # <<>> /\ \A k \in 1..Len(body) : IsDigit(body[k])
        THEN DigitsValue(body)
        ELSE -1

\* usize::to_string: the decimal digits, no sign, no leading zero.
RECURSIVE usize_to_string(_)
usize_to_string(n) ==
    IF n < 10 THEN <<Digits[n + 1]>>
    ELSE usize_to_string(n \div 10) \o <<Digits[(n % 10) + 1]>>

\* try_name_to_index: Ok(index) | Err(name); Err is -1 here.
try_name_to_index(name) == ParseUsize(name)

\* ------------------------------------------------------------ ValueMapping
\* ValueMapping { values: Vec<Value>, mapping: HashMap<String, usize> }
ValueMapping_new == [values |-> <<>>, mapping |-> {}]

\* HashMap::insert on a map kept as a set of <<name, idx>> pairs with unique
\* names: the new index replaces the old one.
MapInsert(m, name, idx) ==
    {p \in m : p[1] # name} \cup {<<name, idx>>}

MapGet(m, name) ==
    IF \E p \in m : p[1] = name
    THEN Some((CHOOSE p \in m : p[1] = name)[2])
    ELSE None

\* impl FromIterator<(Option<String>, Value)>: fold over enumerate().
RECURSIVE FromIterFold(_, _, _)
FromIterFold(this, entries, idx) ==
    IF entries = <<>> THEN this
    ELSE LET e == Head(entries)
             withName == IF e[1] # None
                         THEN MapInsert(this.mapping, e[1][1], idx)
                         ELSE this.mapping
         IN  FromIterFold([values |-> Append(this.values, e[2]),
                           mapping |-> withName],
                          Tail(entries), idx + 1)

FromIter(entries) ==
    FromIterFold(ValueMapping_new, entries, 0)

\* Vec::get(index) -> Option<&Value>, zero-based.
get_by_index(vm, index) ==
    IF index >= 0 /\ index < Len(vm.values) THEN Some(vm.values[index + 1]) ELSE None

get_by_name(vm, name) ==
    LET i == MapGet(vm.mapping, name)
    IN  IF i = None THEN None ELSE get_by_index(vm, i[1])

\* ValueMapping::get: parse the key as usize; on success by index, else by name.
ValueMapping_get(vm, key) ==
    IF ParseUsize(key) >= 0 THEN get_by_index(vm, ParseUsize(key))
    ELSE get_by_name(vm, key)

\* ------------------------------------------------------------- error kinds
NoErr == "none"
Panic == "PANIC"

\* error.rs: the stage each constructor sets.
ErrorStage(kind) ==
    CASE kind \in {"name_resolution_Function", "name_resolution_Global",
                   "name_resolution_Memory", "local_resolution",
                   "label_resolution", "resolution"} -> "NameResolving"
      [] kind \in {"unimplemented"} -> "Unimplemented"
      [] kind \in {"invalid_instruction", "parsing"} -> "Parsing"
      [] OTHER -> "TypeChecking"

name_resolution_error(kind) ==
    CASE kind = "Function" -> "name_resolution_Function"
      [] kind = "Global" -> "name_resolution_Global"
      [] kind = "Memory" -> "name_resolution_Memory"

\* WatError::not_enough_on_stack: assert!(actual < expected) aborts the
\* program when the stack holds MORE than expected.
\* The (1, 0) arm is the empty-stack message.
not_enough_on_stack(expected, actual) ==
    IF ~(actual < expected) THEN Panic
    ELSE IF expected = 1 /\ actual = 0 THEN "empty_stack"
    ELSE "not_enough_on_stack"

\* WatError::empty_stack(n) == not_enough_on_stack(n, 0)
empty_stack(expected) == not_enough_on_stack(expected, 0)

\* --------------------------------------------------------- validator stacks
\* A validator state while one instruction is processed: the two stacks and
\* the error (if any) raised so far.
St(vs, cs, err) == [vs |-> vs, cs |-> cs, err |-> err]

Front(s) == SubSeq(s, 1, Len(s) - 1)
Last(s) == s[Len(s)]

\* InputOutput::get_input_types: the types of the (name, type) inputs.
get_input_types(inout) == [i \in 1..Len(inout.input) |-> inout.input[i][2]]

push_val(vs, typ) == Append(vs, typ)

\* the single element of a one-element set: binds an intermediate result
\* once, as a `let` binding of the source does
The(S) == CHOOSE x \in S : TRUE

\* pop_val: Vec::pop or empty-stack error. The unreachable flag of the top
\* frame is not consulted.
pop_val(vs) ==
    IF vs = <<>> THEN [vs |-> vs, err |-> empty_stack(1), val |-> None]
    ELSE [vs |-> Front(vs), err |-> NoErr, val |-> Some(Last(vs))]

expected_pop_val(vs, expected) ==
    The({ IF p.err # NoErr THEN p
          ELSE IF p.val[1] # expected
               THEN [vs |-> p.vs, err |-> "unexpected_type", val |-> None]
               ELSE p
          : p \in {pop_val(vs)} })

RECURSIVE push_vals(_, _)
push_vals(vs, types) ==
    IF types = <<>> THEN vs
    ELSE push_vals(push_val(vs, Head(types)), Tail(types))

\* pop_vals: types.iter().rev().map(pop).rev().collect(). Both adaptors are
\* lazy: the outer rev() drives the Map from its back, and the back of
\* rev(types) is types[0]; so the closure runs on types[0] first, then
\* types[1], ... and collect() stops at the first Err. The collected vector
\* holds the popped values in that same order.
RECURSIVE pop_vals_from(_, _, _)
pop_vals_from(vs, types, popped) ==
    IF types = <<>> THEN [vs |-> vs, err |-> NoErr, popped |-> popped]
    ELSE The({ IF p.err # NoErr
               THEN [vs |-> p.vs, err |-> p.err, popped |-> popped]
               ELSE pop_vals_from(p.vs, Tail(types), Append(popped, p.val[1]))
               : p \in {expected_pop_val(vs, Head(types))} })

pop_vals(vs, types) == pop_vals_from(vs, types, <<>>)

ControlFrame(opcode, label, input, output, height) ==
    [opcode |-> opcode,
     label |-> IF label = <<>> THEN None ELSE Some(label),
     start_types |-> input,
     end_types |-> output,
     height |-> height,
     unreachable |-> FALSE]

push_control(vs, cs, opcode, label, input, output) ==
    Append(cs, ControlFrame(opcode, label, input, output, Len(vs)))

\* pop_control without the comparison of the stack length and frame.height
pop_control_NoHeightCheck(vs, cs) ==
    IF cs = <<>>
    THEN [vs |-> vs, cs |-> cs, err |-> empty_stack(1), frame |-> None]
    ELSE The({ IF p.err # NoErr
               THEN [vs |-> p.vs, cs |-> Front(cs), err |-> p.err, frame |-> None]
               ELSE [vs |-> p.vs, cs |-> Front(cs), err |-> NoErr,
                     frame |-> Some(Last(cs))]
               : p \in {pop_vals(vs, Last(cs).end_types)} })

\* pop_control: returns the state and the popped frame (Some) or an error.
pop_control(vs, cs) ==
    IF cs = <<>>
    THEN [vs |-> vs, cs |-> cs, err |-> empty_stack(1), frame |-> None]
    ELSE The({ IF p.err # NoErr
               THEN [vs |-> p.vs, cs |-> Front(cs), err |-> p.err, frame |-> None]
               ELSE IF Len(p.vs) # Last(cs).height
                    THEN [vs |-> p.vs, cs |-> Front(cs),
                          err |-> not_enough_on_stack(Last(cs).height, Len(p.vs)),
                          frame |-> None]
                    ELSE [vs |-> p.vs, cs |-> Front(cs), err |-> NoErr,
                          frame |-> Some(Last(cs))]
               : p \in {pop_vals(vs, Last(cs).end_types)} })

\* label_types that takes end_types for every frame kind
label_types_AlwaysEnd(frame) == frame.end_types

label_types(frame) ==
    IF frame.opcode = "Loop" THEN frame.start_types ELSE frame.end_types

\* unreachable(): Vec::reserve changes the capacity only, never the length;
\* the top frame, if there is one, gets unreachable = true.
unreachable(cs) ==
    IF cs = <<>> THEN cs
    ELSE [cs EXCEPT ![Len(cs)].unreachable = TRUE]

\* try_get_control_frame: a numeric label indexes control_stack from index 0,
\* the bottom of the Vec; a name takes the first frame, from the bottom, whose
\* label is that name.
try_get_control_frame(cs, label) ==
    LET index == try_name_to_index(label)
    IN  IF index >= 0
        THEN IF index < Len(cs)
             THEN [err |-> NoErr, frame |-> Some(cs[index + 1])]
             ELSE [err |-> "index_out_of_range", frame |-> None]
        ELSE LET hits == {k \in 1..Len(cs) : cs[k].label = Some(label)}
             IN  IF hits = {}
                 THEN [err |-> "label_resolution", frame |-> None]
                 ELSE [err |-> NoErr,
                       frame |-> Some(cs[CHOOSE k \in hits : \A j \in hits : k <= j])]

\* ------------------------------------------------------------------- state
VARIABLES
    \* Validator
    value_stack,      \* Vec<SerializableWatType>
    control_stack,    \* Vec<ControlFrame>
    globals,          \* ValueMapping<(bool, SerializableWatType)>
    memory_names,     \* HashSet<String>
    functions,        \* ValueMapping<(Vec<type>, Vec<type>)>
    \* the module the Validator was built from (Validator::new's argument)
    structure,
    \* validate_function's frame
    results,          \* results: &[SerializableWatType]
    local_vars,       \* local_vars: ValueMapping<SerializableWatType>
    cur,              \* the instruction of the current loop iteration
    status,           \* "idle" | "running" | "ok" | "err" | "panic"
    err,              \* the WatError returned, by kind
    \* SerializedInstructionTree::try_from's frame
    wait_stack,       \* Vec<(Vec<Node>, MarkBlock, String, InputOutput)>
    current,          \* Vec<SerializedInstructionNode>
    has_func_ended,   \* bool
    stream,           \* the instructions of `value` consumed so far
    tstatus,          \* "idle" | "running" | "ok" | "err" | "panic"
    terr,             \* the WatError returned, by kind
    \* a ValueMapping under construction and one lookup on it
    vm_entries,       \* the iterator handed to from_iter
    vm,               \* the collected ValueMapping
    vm_key,           \* the key of the last get (Option)
    vm_result,        \* what that get returned (Option)
    \* SerializedInstruction::try_from's argument and result
    l_op,             \* the wast Instruction handed to try_from (Option)
    l_out,            \* the SerializedInstruction returned (Option)
    \* u32::try_from(SerializedNumber)'s argument and result
    n_value,          \* the constant the SerializedNumber is made from (Option)
    n_u32,            \* the Result returned (Option)
    \* InterpreterStructure::try_new's frame, inside transform
    exported,         \* HashMap<String, (NumLocationKind, u32)>
    a_globals,        \* globals: Vec<GlobalData>
    a_memory,         \* memory: Vec<MemoryData>
    a_func,           \* func: Vec<WastFunc>
    a_field,          \* the ModuleField of the current loop iteration
    a_i,              \* the number of fields consumed
    astatus,          \* "idle" | "running" | "ok" | "err" | "panic"
    aerr,             \* the WatError try_new returned, by kind
    t_result          \* what transform returned: None, or Some(error kind or NoErr)

vvars == <<value_stack, control_stack, globals, memory_names, functions,
           structure, results, local_vars, cur, status, err>>
tvars == <<wait_stack, current, has_func_ended, stream, tstatus, terr>>
mvars == <<vm_entries, vm, vm_key, vm_result>>
lvars == <<l_op, l_out>>
\* the components the validator, the tree assembly and the tables never touch
avars == <<exported, a_globals, a_memory, a_func, a_field, a_i, astatus, aerr,
           t_result>>
nvars == <<n_value, n_u32>>
ovars == <<lvars, avars, nvars>>
vars == <<vvars, tvars, mvars, ovars>>

\* ---------------------------------------------------------------- validate
\* Conversion arms of validate: the (popped, pushed) types of each kind.
ConversionSig(c) ==
    CASE c = "WrapInt" -> <<"I64", "I32">>
      [] c \in {"SignedTruncF32ToI32", "UnsignedTruncF32ToI32"} -> <<"F32", "I32">>
      [] c \in {"SignedTruncF64ToI32", "UnsignedTruncF64ToI32"} -> <<"F64", "I32">>
      [] c \in {"SignedTruncF32ToI64", "UnsignedTruncF32ToI64"} -> <<"F32", "I64">>
      [] c \in {"SignedTruncF64ToI64", "UnsignedTruncF64ToI64"} -> <<"F64", "I64">>
      [] c \in {"SignedExtend", "UnsignedExtend"} -> <<"I32", "I64">>
      [] c \in {"SignedConvertI32ToF32", "UnsignedConvertI32ToF32"} -> <<"I32", "F32">>
      [] c \in {"SignedConvertI64ToF32", "UnsignedConvertI64ToF32"} -> <<"I64", "F32">>
      [] c \in {"SignedConvertI32ToF64", "UnsignedConvertI32ToF64"} -> <<"I32", "F64">>
      [] c \in {"SignedConvertI64ToF64", "UnsignedConvertI64ToF64"} -> <<"I64", "F64">>
      [] c = "DemoteFloat" -> <<"F64", "F32">>
      [] c = "PromoteFloat" -> <<"F32", "F64">>
      [] c = "Reinterpret32FToI" -> <<"F32", "I32">>
      [] c = "Reinterpret32IToF" -> <<"I32", "F32">>
      [] c = "Reinterpret64FToI" -> <<"F64", "I64">>
      [] c = "Reinterpret64IToF" -> <<"I64", "F64">>

\* PopPush1 that pushes back the type it popped
PopPush1_PushesPopped(vs, cs, typ, out) ==
    The({ IF p.err # NoErr THEN St(p.vs, cs, p.err)
          ELSE St(push_val(p.vs, typ), cs, NoErr)
          : p \in {expected_pop_val(vs, typ)} })

\* pop one value of type `typ`, then push `out`
PopPush1(vs, cs, typ, out) ==
    The({ IF p.err # NoErr THEN St(p.vs, cs, p.err)
          ELSE St(push_val(p.vs, out), cs, NoErr)
          : p \in {expected_pop_val(vs, typ)} })

\* PopPush2 that pops one value only
PopPush2_PopsOnce(vs, cs, typ, out) == PopPush1(vs, cs, typ, out)

\* pop two values of type `typ`, then push `out`
PopPush2(vs, cs, typ, out) ==
    The({ IF p.err # NoErr THEN St(p.vs, cs, p.err)
          ELSE PopPush1(p.vs, cs, typ, out)
          : p \in {expected_pop_val(vs, typ)} })

\* pop the types `types`, nothing else
PopOnly(vs, cs, types) ==
    The({ St(p.vs, cs, p.err) : p \in {pop_vals(vs, types)} })

validate_Simple(ins, vs, cs, output) ==
    CASE ins.s = "Unreachable" -> St(vs, unreachable(cs), NoErr)
      [] ins.s = "Nop" -> St(vs, cs, NoErr)
      [] ins.s = "Drop" -> The({ St(p.vs, cs, p.err) : p \in {pop_val(vs)} })
      [] ins.s = "Return" -> PopOnly(vs, cs, output)

\* enter_block whose frame takes its height before the inputs are popped
enter_block_HeightBeforePop(ins, vs, cs, input) ==
    The({ IF p.err # NoErr THEN St(p.vs, cs, p.err)
          ELSE St(p.vs,
                  push_control(vs, cs, ins.kind, ins.label, input,
                               ins.inout[1].output),
                  NoErr)
          : p \in {pop_vals(vs, input)} })

\* pop `input`, then push a frame of kind `kind`
enter_block(ins, vs, cs, input) ==
    The({ IF p.err # NoErr THEN St(p.vs, cs, p.err)
          ELSE St(p.vs,
                  push_control(p.vs, cs, ins.kind, ins.label, input,
                               ins.inout[1].output),
                  NoErr)
          : p \in {pop_vals(vs, input)} })

validate_Block(ins, vs, cs) ==
    CASE ins.kind \in {"Block", "Loop"} ->
            enter_block(ins, vs, cs, get_input_types(ins.inout[1]))
      [] ins.kind = "If" ->
            The({ IF c.err # NoErr THEN St(c.vs, cs, c.err)
                  ELSE enter_block(ins, c.vs, cs, get_input_types(ins.inout[1]))
                  : c \in {expected_pop_val(vs, "I32")} })
      [] ins.kind = "Else" ->
            The({ IF f.err # NoErr THEN St(f.vs, f.cs, f.err)
                  ELSE IF f.frame[1].opcode # "If"
                       THEN St(f.vs, f.cs, "else_without_if")
                       ELSE St(f.vs,
                               push_control(f.vs, f.cs, ins.kind, ins.label,
                                            f.frame[1].start_types,
                                            f.frame[1].end_types),
                               NoErr)
                  : f \in {pop_control(vs, cs)} })
      [] ins.kind = "End" ->
            The({ IF f.err # NoErr THEN St(f.vs, f.cs, f.err)
                  ELSE St(push_vals(f.vs, f.frame[1].end_types), f.cs, NoErr)
                  : f \in {pop_control(vs, cs)} })

\* the try_for_each over other_labels of a table branch
RECURSIVE branch_other_labels(_, _, _, _)
branch_other_labels(vs, cs, labels, arity) ==
    IF labels = <<>> THEN St(vs, cs, NoErr)
    ELSE The({ IF f.err # NoErr THEN St(vs, cs, f.err)
               ELSE IF Len(label_types(f.frame[1])) # arity
                    THEN St(vs, cs, "mismatched_inout")
                    ELSE The({ IF p.err # NoErr THEN St(p.vs, cs, p.err)
                               ELSE branch_other_labels(push_vals(p.vs, p.popped),
                                                        cs, Tail(labels), arity)
                               : p \in {pop_vals(vs, label_types(f.frame[1]))} })
               : f \in {try_get_control_frame(cs, Head(labels))} })

\* pop the default label's types, then mark the frame unreachable
branch_leave(vs, cs, default_vals) ==
    The({ IF p.err # NoErr THEN St(p.vs, cs, p.err)
          ELSE St(p.vs, unreachable(cs), NoErr)
          : p \in {pop_vals(vs, default_vals)} })

\* br_if, after the condition: pop the default label's types, push them back
branch_continue(vs, cs, default_vals) ==
    The({ IF p.err # NoErr THEN St(p.vs, cs, p.err)
          ELSE St(push_vals(p.vs, default_vals), cs, NoErr)
          : p \in {pop_vals(vs, default_vals)} })

branch_to(ins, vs, cs, default_vals) ==
    IF ins.other_labels = <<>>
    THEN IF ins.is_conditional
         THEN The({ IF c.err # NoErr THEN St(c.vs, cs, c.err)
                    ELSE branch_continue(c.vs, cs, default_vals)
                    : c \in {expected_pop_val(vs, "I32")} })
         ELSE branch_leave(vs, cs, default_vals)
    ELSE The({ IF c.err # NoErr THEN St(c.vs, cs, c.err)
               ELSE The({ IF o.err # NoErr THEN o
                          ELSE branch_leave(o.vs, cs, default_vals)
                          : o \in {branch_other_labels(c.vs, cs, ins.other_labels,
                                                       Len(default_vals))} })
               : c \in {expected_pop_val(vs, "I32")} })

validate_Branch(ins, vs, cs) ==
    The({ IF d.err # NoErr THEN St(vs, cs, d.err)
          ELSE branch_to(ins, vs, cs, label_types(d.frame[1]))
          : d \in {try_get_control_frame(cs, ins.default_label)} })

\* Call: the signature popped and pushed is the instruction's own inout.
validate_Call(ins, vs, cs) ==
    IF ValueMapping_get(functions, ins.index) # None
    THEN The({ IF p.err # NoErr THEN St(p.vs, cs, p.err)
               ELSE St(push_vals(p.vs, ins.inout.output), cs, NoErr)
               : p \in {pop_vals(vs, get_input_types(ins.inout))} })
    ELSE St(vs, cs, name_resolution_error("Function"))

\* validate_SetGlobal without the mutability test
validate_SetGlobal_AnyMutability(ins, vs, cs) ==
    The({ IF g = None THEN St(vs, cs, name_resolution_error("Global"))
          ELSE PopOnly(vs, cs, <<g[1][2]>>)
          : g \in {ValueMapping_get(globals, ins.location)} })

\* global.set: resolve, then the mutability flag, then the pop.
validate_SetGlobal(ins, vs, cs) ==
    The({ IF g = None THEN St(vs, cs, name_resolution_error("Global"))
          ELSE IF g[1][1] THEN PopOnly(vs, cs, <<g[1][2]>>)
          ELSE St(vs, cs, "immutable_global")
          : g \in {ValueMapping_get(globals, ins.location)} })

\* memory.size / memory.grow: the location must be an element of memory_names.
validate_MemorySize(ins, vs, cs) ==
    IF ins.location \in memory_names
    THEN IF ins.kind = "GetMemorySize"
         THEN St(push_val(vs, "I32"), cs, NoErr)
         ELSE PopPush1(vs, cs, "I32", "I32")
    ELSE St(vs, cs, name_resolution_error("Memory"))

\* validate_Local whose local.tee does not push the value back
validate_Local_TeeNoPush(ins, vs, cs, l) ==
    IF l = None THEN St(vs, cs, "local_resolution")
    ELSE CASE ins.kind = "GetLocal" -> St(push_val(vs, l[1]), cs, NoErr)
           [] ins.kind = "SetLocal" -> PopOnly(vs, cs, <<l[1]>>)
           [] ins.kind = "TeeLocal" -> PopOnly(vs, cs, <<l[1]>>)

validate_Local(ins, vs, cs, l) ==
    IF l = None THEN St(vs, cs, "local_resolution")
    ELSE CASE ins.kind = "GetLocal" -> St(push_val(vs, l[1]), cs, NoErr)
           [] ins.kind = "SetLocal" -> PopOnly(vs, cs, <<l[1]>>)
           [] ins.kind = "TeeLocal" -> PopPush1(vs, cs, l[1], l[1])

validate_Data(ins, vs, cs, locals) ==
    CASE ins.kind \in {"GetLocal", "SetLocal", "TeeLocal"} ->
            The({ validate_Local(ins, vs, cs, l)
                  : l \in {ValueMapping_get(locals, ins.location)} })
      [] ins.kind = "GetGlobal" ->
            The({ IF g # None THEN St(push_val(vs, g[1][2]), cs, NoErr)
                  ELSE St(vs, cs, name_resolution_error("Global"))
                  : g \in {ValueMapping_get(globals, ins.location)} })
      [] ins.kind = "SetGlobal" -> validate_SetGlobal(ins, vs, cs)
      [] ins.kind \in {"GetMemorySize", "SetMemorySize"} ->
            validate_MemorySize(ins, vs, cs)

validate_Memory(ins, vs, cs) ==
    IF ins.location \in memory_names
    THEN IF ins.is_storing
         THEN The({ IF v.err # NoErr THEN St(v.vs, cs, v.err)
                    ELSE PopOnly(v.vs, cs, <<"I32">>)
                    : v \in {expected_pop_val(vs, ins.typ)} })
         ELSE PopPush1(vs, cs, "I32", ins.typ)
    ELSE St(vs, cs, name_resolution_error("Memory"))

validate_Comparison(ins, vs, cs) ==
    IF ins.kind = "EqualZero"
    THEN St(push_val(vs, "I32"), cs, NoErr)
    ELSE PopPush2(vs, cs, ins.typ, "I32")

validate_Bitwise(ins, vs, cs) ==
    LET typ == IF ins.is_64_bit THEN "I64" ELSE "I32"
    IN  IF ins.kind \in {"CountLeadingZero", "CountTrailingZero", "CountNonZero"}
        THEN PopPush1(vs, cs, typ, typ)
        ELSE PopPush2(vs, cs, typ, typ)

validate_Float(ins, vs, cs) ==
    LET typ == IF ins.is_64_bit THEN "F64" ELSE "F32"
    IN  IF ins.kind \in {"Minimum", "Maximum", "CopySign"}
        THEN PopPush2(vs, cs, typ, typ)
        ELSE PopPush1(vs, cs, typ, typ)

\* Validator::validate: one instruction against the two stacks.
validate(ins, vs, cs, output, locals) ==
    CASE ins.op = "Simple" -> validate_Simple(ins, vs, cs, output)
      [] ins.op = "Block" -> validate_Block(ins, vs, cs)
      [] ins.op = "Branch" -> validate_Branch(ins, vs, cs)
      [] ins.op = "Call" -> validate_Call(ins, vs, cs)
      [] ins.op = "Data" -> validate_Data(ins, vs, cs, locals)
      [] ins.op = "Memory" -> validate_Memory(ins, vs, cs)
      [] ins.op = "Const" -> St(push_val(vs, ins.typ), cs, NoErr)
      [] ins.op = "Arithmetic" -> PopPush2(vs, cs, ins.typ, ins.typ)
      [] ins.op = "Comparison" -> validate_Comparison(ins, vs, cs)
      [] ins.op = "Bitwise" -> validate_Bitwise(ins, vs, cs)
      [] ins.op = "Float" -> validate_Float(ins, vs, cs)
      [] ins.op = "Conversion" ->
            PopPush1(vs, cs, ConversionSig(ins.c)[1], ConversionSig(ins.c)[2])
      [] ins.op = "DefaultString" -> St(vs, cs, "unimplemented")

\* ------------------------------------------------------- inputs (validator)
T_I32 == "I32"
T_F32 == "F32"

\* InputOutput { index, input, output }
InputOutput(input, output) == [index |-> None, input |-> input, output |-> output]
InputOutput_default == InputOutput(<<>>, <<>>)

\* the modules a Validator is built from: the names and types of globals,
\* memories and functions, in declaration order
Modules ==
    { [globals |-> << [name |-> <<"g">>, is_mutable |-> FALSE, typ |-> T_I32],
                      [name |-> <<"h">>, is_mutable |-> TRUE, typ |-> T_F32] >>,
       memory |-> << [name |-> <<"m">>] >>,
       func |-> << [name |-> Some(<<"f">>), input |-> <<>>, output |-> <<T_I32>>] >>] }

\* (params, locals, results) of the functions handed to validate_function
FuncSigs ==
    { [params |-> <<>>, locals |-> <<>>, results |-> <<>>],
      [params |-> <<>>, locals |-> <<>>, results |-> <<T_I32>>],
      [params |-> << <<Some(<<"x">>), T_I32>> >>, locals |-> << <<None, T_F32>> >>,
       results |-> <<T_I32, T_F32>>] }

NoInstr == [op |-> "None"]

Simple(s) == [op |-> "Simple", s |-> s]
Block(label, kind, inout) == [op |-> "Block", label |-> label, kind |-> kind, inout |-> inout]
Branch(d, o, c) == [op |-> "Branch", default_label |-> d, other_labels |-> o, is_conditional |-> c]
Call(index, inout) == [op |-> "Call", index |-> index, inout |-> inout]
Data(kind, location) == [op |-> "Data", kind |-> kind, location |-> location]
Memory(location, typ, is_storing) ==
    [op |-> "Memory", location |-> location, typ |-> typ, count |-> "Bits32",
     offset |-> 0, alignment |-> "Bits32", is_storing |-> is_storing]
Const(typ) == [op |-> "Const", typ |-> typ, value |-> 0]
Arithmetic(kind, typ) == [op |-> "Arithmetic", kind |-> kind, typ |-> typ]

SimpleInstrs == {Simple(s) : s \in {"Unreachable", "Nop", "Drop", "Return"}}

BlockInstrs ==
    { Block(<<>>, "Block", Some(InputOutput(<<>>, <<>>))),
      Block(<<>>, "End", None) }

\* br l, br_if l
BranchInstrs == {Branch(<<"0">>, <<>>, c) : c \in BOOLEAN}

\* call f lowers with InputOutput::default()
CallInstrs == {Call(i, InputOutput_default) : i \in {<<"f">>, <<"0">>, <<"z">>}}

DataInstrs ==
    {Data("SetGlobal", l) : l \in {<<"g">>, <<"h">>, <<"0">>, <<"1">>, <<"z">>}}
    \cup {Data("GetGlobal", <<"h">>), Data("GetLocal", <<"x">>)}
    \cup {Data(k, l) : k \in {"GetMemorySize", "SetMemorySize"},
                       l \in {<<"m">>, <<"0">>}}

MemoryInstrs ==
    {Memory(l, T_I32, st) : l \in {<<"m">>, <<"0">>}, st \in BOOLEAN}

ConstInstrs == {Const(t) : t \in {T_I32, T_F32}}

ArithmeticInstrs == {Arithmetic("Add", T_I32)}

\* ------------------------------------------------------ validator: actions
\* Validator::new
Validator_new(m) ==
    /\ structure = m
    /\ value_stack = <<>>
    /\ control_stack = <<>>
    /\ globals = FromIter([i \in 1..Len(m.globals) |->
                             <<Some(m.globals[i].name),
                               <<m.globals[i].is_mutable, m.globals[i].typ>> >>])
    /\ memory_names = {m.memory[i].name : i \in 1..Len(m.memory)}
    /\ functions = FromIter([i \in 1..Len(m.func) |->
                               <<m.func[i].name,
                                 <<m.func[i].input, m.func[i].output>> >>])

TreeIdle ==
    /\ wait_stack = <<>>
    /\ current = <<>>
    /\ has_func_ended = FALSE
    /\ stream = <<>>
    /\ tstatus = "idle"
    /\ terr = NoErr

LowerIdle ==
    /\ l_op = None
    /\ l_out = None
    /\ n_value = None
    /\ n_u32 = None

NoField == [field |-> "None"]

AssemblyIdle ==
    /\ exported = {}
    /\ a_globals = <<>>
    /\ a_memory = <<>>
    /\ a_func = <<>>
    /\ a_field = NoField
    /\ a_i = 0
    /\ astatus = "idle"
    /\ aerr = NoErr
    /\ t_result = None

MapIdle ==
    /\ vm_entries = <<>>
    /\ vm = ValueMapping_new
    /\ vm_key = None
    /\ vm_result = None

Init ==
    /\ \E m \in Modules : Validator_new(m)
    /\ results = <<>>
    /\ local_vars = ValueMapping_new
    /\ cur = NoInstr
    /\ status = "idle"
    /\ err = NoErr
    /\ TreeIdle
    /\ MapIdle
    /\ LowerIdle
    /\ AssemblyIdle

\* reset_stack that clears the value stack only
reset_stack_ValueStackOnly ==
    /\ value_stack' = <<>>
    /\ UNCHANGED control_stack

\* Validator::reset_stack
reset_stack ==
    /\ value_stack' = <<>>
    /\ control_stack' = <<>>

\* validate_function, entry: reset the stacks and build local_vars
StartFunction ==
    /\ status # "running"
    /\ \E f \in FuncSigs :
          /\ results' = f.results
          /\ local_vars' = FromIter(f.params \o f.locals)
    /\ reset_stack
    /\ cur' = NoInstr
    /\ status' = "running"
    /\ err' = NoErr
    /\ UNCHANGED <<globals, memory_names, functions, structure, tvars, mvars, ovars>>

\* validate_function, one iteration of the loop over the body
StepOf(ins, maxStack, maxDepth) ==
    /\ status = "running"
    /\ \E r \in {validate(ins, value_stack, control_stack, results, local_vars)} :
           /\ Len(r.vs) <= maxStack
           /\ Len(r.cs) <= maxDepth
           /\ value_stack' = r.vs
           /\ control_stack' = r.cs
           /\ err' = r.err
           /\ status' = IF r.err = NoErr THEN "running"
                        ELSE IF r.err = Panic THEN "panic" ELSE "err"
    /\ cur' = ins
    /\ UNCHANGED <<globals, memory_names, functions, structure, results,
                   local_vars, tvars, mvars>>

Step(ins, maxStack, maxDepth) ==
    /\ StepOf(ins, maxStack, maxDepth)
    /\ UNCHANGED ovars

ValidateSimple == \E ins \in SimpleInstrs : Step(ins, MaxStack, MaxDepth)
ValidateBlock == \E ins \in BlockInstrs : Step(ins, MaxStack, MaxDepth)
ValidateBranch == \E ins \in BranchInstrs : Step(ins, MaxStack, MaxDepth)
ValidateCall == \E ins \in CallInstrs : Step(ins, MaxStack, MaxDepth)
ValidateData == \E ins \in DataInstrs : Step(ins, MaxStack, MaxDepth)
ValidateMemory == \E ins \in MemoryInstrs : Step(ins, MaxStack, MaxDepth)
ValidateConst == \E ins \in ConstInstrs : Step(ins, MaxStack, MaxDepth)
ValidateArithmetic == \E ins \in ArithmeticInstrs : Step(ins, MaxStack, MaxDepth)

\* FinishFunction without the is_empty test
FinishFunction_NoEmptyCheck ==
    /\ status = "running"
    /\ \E p \in {pop_vals(value_stack, results)} :
           /\ value_stack' = p.vs
           /\ err' = p.err
           /\ status' = IF p.err = NoErr THEN "ok" ELSE "err"
    /\ cur' = NoInstr
    /\ UNCHANGED <<control_stack, globals, memory_names, functions, structure,
                   results, local_vars, tvars, mvars, ovars>>

\* validate_function, after the loop: pop the results, the stack must be empty
FinishFunction ==
    /\ status = "running"
    /\ \E p \in {pop_vals(value_stack, results)} :
           /\ value_stack' = p.vs
           /\ err' = IF p.err # NoErr THEN p.err
                     ELSE IF p.vs # <<>> THEN "extra_items_on_stack" ELSE NoErr
           /\ status' = IF p.err = NoErr /\ p.vs = <<>> THEN "ok" ELSE "err"
    /\ cur' = NoInstr
    /\ UNCHANGED <<control_stack, globals, memory_names, functions, structure,
                   results, local_vars, tvars, mvars, ovars>>

Next ==
    \/ StartFunction
    \/ ValidateSimple
    \/ ValidateBlock
    \/ ValidateBranch
    \/ ValidateCall
    \/ ValidateData
    \/ ValidateMemory
    \/ ValidateConst
    \/ ValidateArithmetic
    \/ FinishFunction

Spec == Init /\ [][Next]_vars

\* ------------------------------------------- validator: nested frames
\* Blocks with two-valued signatures, a loop with an input, a block of the
\* same name as the loop, and branches to them by depth, by name and through
\* a table.
BrBlockInstrs ==
    { Block(<<>>, "Block", Some(InputOutput(<<>>, <<T_I32, T_F32>>))),
      Block(<<>>, "Block", Some(InputOutput(<<>>, <<T_F32, T_I32>>))),
      Block(<<"a">>, "Loop", Some(InputOutput(<< <<None, T_I32>> >>, <<>>))),
      Block(<<"a">>, "Block", Some(InputOutput(<<>>, <<T_F32>>))),
      Block(<<>>, "End", None) }

BrBranchInstrs ==
    {Branch(d, <<>>, c) : d \in {<<"0">>, <<"1">>, <<"a">>}, c \in BOOLEAN}
    \cup {Branch(<<"0">>, << <<"1">> >>, TRUE), Branch(<<"1">>, << <<"0">> >>, TRUE),
          Branch(<<"0">>, << <<"0">> >>, TRUE)}

BrValidateBlock == \E ins \in BrBlockInstrs : Step(ins, MaxStack, MaxBrDepth)
BrValidateBranch == \E ins \in BrBranchInstrs : Step(ins, MaxStack, MaxBrDepth)

NextBr ==
    \/ StartFunction
    \/ ValidateConst
    \/ BrValidateBlock
    \/ BrValidateBranch
    \/ FinishFunction

SpecBr == Init /\ [][NextBr]_vars

\* ---------------------------------------- validator: frames of every kind
\* Block, Loop and If markers with and without inputs, Else and End, and
\* unconditional branches by depth.
FrValidateConst ==
    \E ins \in {Const(T_I32), Const(T_F32)} : Step(ins, MaxFrStack, MaxFrDepth)

FrValidateBlock ==
    \E ins \in { Block(<<>>, "Block", Some(InputOutput(<<>>, <<T_I32>>))),
                 Block(<<>>, "Block", Some(InputOutput(<< <<None, T_I32>>, <<None, T_F32>> >>,
                                                       <<T_F32, T_I32>>))),
                 Block(<<>>, "Loop", Some(InputOutput(<< <<None, T_I32>> >>, <<>>))),
                 Block(<<>>, "If", Some(InputOutput(<< <<None, T_I32>> >>, <<T_I32>>))),
                 Block(<<>>, "Else", None),
                 Block(<<>>, "End", None) } :
        Step(ins, MaxFrStack, MaxFrDepth)

FrValidateBranch ==
    \E ins \in { Branch(<<"0">>, <<>>, FALSE), Branch(<<"1">>, <<>>, FALSE) } :
        Step(ins, MaxFrStack, MaxFrDepth)

NextF ==
    \/ StartFunction
    \/ FrValidateConst
    \/ FrValidateBlock
    \/ FrValidateBranch
    \/ FinishFunction

SpecF == Init /\ [][NextF]_vars

\* ------------------------------------- validator: locals and arithmetic
\* local.get, local.set and local.tee by name and by index, and constants
\* and arithmetic of the four number types.
DValidateLocal ==
    \E ins \in { Data(k, l) : k \in {"GetLocal", "SetLocal", "TeeLocal"},
                              l \in {<<"x">>, <<"0">>, <<"1">>, <<"2">>, <<"z">>} } :
        Step(ins, MaxDStack, MaxDepth)

DValidateNumeric ==
    \E ins \in { Const(t) : t \in {"I32", "I64", "F32", "F64"} }
               \cup { Arithmetic(k, t) :
                        k \in {"Addition", "Multiplication", "DivisonSigned"},
                        t \in {"I32", "I64", "F32", "F64"} }
               \cup { [op |-> "Comparison", kind |-> k, typ |-> t] :
                        k \in {"EqualZero", "Equal", "LessThenSigned"},
                        t \in {"I32", "I64", "F32", "F64"} } :
        Step(ins, MaxDStack, MaxDepth)

NextD ==
    \/ StartFunction
    \/ DValidateLocal
    \/ DValidateNumeric
    \/ FinishFunction

SpecD == Init /\ [][NextD]_vars

\* ------------------------------------------------------ block-tree assembly
\* SerializedInstructionNode
NonBlock(ins) == [node |-> "NonBlock", ins |-> ins]
SingleBlock(label, inout, is_loop, inner_nodes) ==
    [node |-> "SingleBlock", label |-> label, inout |-> inout,
     is_loop |-> is_loop, inner_nodes |-> inner_nodes]
ConditionalBlock(label, inout, then_nodes, else_nodes) ==
    [node |-> "ConditionalBlock", label |-> label, inout |-> inout,
     then_nodes |-> then_nodes, else_nodes |-> else_nodes]

\* an entry of wait_stack: (nodes, MarkBlock, label, InputOutput)
Waiting(nodes, mark, label, inout) ==
    [nodes |-> nodes, mark |-> mark, label |-> label, inout |-> inout]

\* the state of the fold and the error it stops with, if any
Ts(w, c, h, e) == [wait_stack |-> w, current |-> c, has_func_ended |-> h, err |-> e]

\* the flat streams: two leaves, the block markers with and without a label
TreeLeaves == {Simple("Nop"), Simple("Drop")}
TreeOpens ==
    {Block(<<>>, k, Some(InputOutput_default)) : k \in {"Block", "Loop", "If"}}
    \cup {Block(<<"a">>, "If", Some(InputOutput(<<>>, <<T_I32>>)))}
TreeElses == {Block(l, "Else", None) : l \in {<<>>, <<"a">>}}
TreeEnds == {Block(<<>>, "End", None)}

\* BlockKind::Block / Loop / If / Else: push the siblings, start a new list
tree_open(ins, w, c, h) ==
    CASE ins.kind = "Block" ->
            Ts(Append(w, Waiting(c, "Regular", ins.label, ins.inout[1])), <<>>, h, NoErr)
      [] ins.kind = "Loop" ->
            Ts(Append(w, Waiting(c, "Loop", ins.label, ins.inout[1])), <<>>, h, NoErr)
      [] ins.kind = "If" ->
            Ts(Append(w, Waiting(c, "If", ins.label, ins.inout[1])), <<>>, h, NoErr)
      [] ins.kind = "Else" ->
            Ts(Append(w, Waiting(c, "Else", ins.label, InputOutput_default)), <<>>, h, NoErr)

\* tree_end_else with the two branches exchanged
tree_end_else_BranchesSwapped(block, w, c, h) ==
    IF w = <<>> THEN Ts(w, c, h, "unimplemented")
    ELSE IF Last(w).mark # "If" THEN Ts(Front(w), c, h, "unimplemented")
    ELSE IF Last(w).label # block.label THEN Ts(Front(w), c, h, Panic)
    ELSE Ts(Front(w),
            Append(Last(w).nodes,
                   ConditionalBlock(block.label, Last(w).inout, c, block.nodes)),
            h, NoErr)

\* End whose popped frame is an Else: the frame below must be the If
tree_end_else(block, w, c, h) ==
    IF w = <<>> THEN Ts(w, c, h, "unimplemented")
    ELSE IF Last(w).mark # "If" THEN Ts(Front(w), c, h, "unimplemented")
    ELSE IF Last(w).label # block.label THEN Ts(Front(w), c, h, Panic)
    ELSE Ts(Front(w),
            Append(Last(w).nodes,
                   ConditionalBlock(block.label, Last(w).inout, block.nodes, c)),
            h, NoErr)

\* tree_end accepting every End met with an empty wait_stack
tree_end_AnyStrayEnd(w, c, h) ==
    IF w # <<>>
    THEN IF Last(w).mark = "Else" THEN tree_end_else(Last(w), Front(w), c, h)
         ELSE IF Last(w).mark = "If"
              THEN Ts(Front(w),
                      Append(Last(w).nodes,
                             ConditionalBlock(Last(w).label, Last(w).inout, c, <<>>)),
                      h, NoErr)
              ELSE Ts(Front(w),
                      Append(Last(w).nodes,
                             SingleBlock(Last(w).label, Last(w).inout,
                                         Last(w).mark = "Loop", c)),
                      h, NoErr)
    ELSE Ts(w, c, TRUE, NoErr)

\* BlockKind::End
tree_end(w, c, h) ==
    IF w # <<>>
    THEN IF Last(w).mark = "Else" THEN tree_end_else(Last(w), Front(w), c, h)
         ELSE IF Last(w).mark = "If"
              THEN Ts(Front(w),
                      Append(Last(w).nodes,
                             ConditionalBlock(Last(w).label, Last(w).inout, c, <<>>)),
                      h, NoErr)
              ELSE Ts(Front(w),
                      Append(Last(w).nodes,
                             SingleBlock(Last(w).label, Last(w).inout,
                                         Last(w).mark = "Loop", c)),
                      h, NoErr)
    ELSE IF ~h THEN Ts(w, c, TRUE, NoErr)
    ELSE Ts(w, c, h, "invalid_instruction")

\* one iteration of the loop over `value`
TreeStep(ins, r) ==
    /\ tstatus = "running"
    /\ Len(stream) < MaxStream
    /\ stream' = Append(stream, ins)
    /\ wait_stack' = r.wait_stack
    /\ current' = r.current
    /\ has_func_ended' = r.has_func_ended
    /\ terr' = r.err
    /\ tstatus' = IF r.err = NoErr THEN "running"
                  ELSE IF r.err = Panic THEN "panic" ELSE "err"
    /\ UNCHANGED <<vvars, mvars, ovars>>

\* SerializedInstructionTree::try_from, entry
TreeStart ==
    /\ tstatus = "idle"
    /\ tstatus' = "running"
    /\ UNCHANGED <<wait_stack, current, has_func_ended, stream, terr, vvars, mvars, ovars>>

TreeOpen ==
    \E ins \in TreeOpens \cup TreeElses :
        TreeStep(ins, tree_open(ins, wait_stack, current, has_func_ended))

TreeEnd ==
    \E ins \in TreeEnds :
        \E r \in {tree_end(wait_stack, current, has_func_ended)} : TreeStep(ins, r)

TreeLeaf ==
    \E ins \in TreeLeaves :
        TreeStep(ins, Ts(wait_stack, Append(current, NonBlock(ins)),
                         has_func_ended, NoErr))

\* after the loop: assert!(wait_stack.is_empty()); Ok(Self { root: current })
TreeFinish ==
    /\ tstatus = "running"
    /\ tstatus' = IF wait_stack = <<>> THEN "ok" ELSE "panic"
    /\ terr' = IF wait_stack = <<>> THEN NoErr ELSE Panic
    /\ UNCHANGED <<wait_stack, current, has_func_ended, stream, vvars, mvars, ovars>>

NextT ==
    \/ TreeStart
    \/ TreeOpen
    \/ TreeEnd
    \/ TreeLeaf
    \/ TreeFinish

SpecT == Init /\ [][NextT]_vars

\* ------------------------------------------------------ identifier tables
\* the (Option<String>, Value) items collected into a ValueMapping
EntryNames == {None, Some(<<"a">>), Some(<<"b">>), Some(<<"0">>), Some(<<"1">>)}
EntryLists ==
    UNION { [1..n -> EntryNames \X {T_I32, T_F32}] : n \in 0..MaxEntries }
LookupKeys == {<<"0">>, <<"1">>, <<"2">>, <<"a">>, <<"b">>, <<"z">>}

\* iter.collect::<ValueMapping<_>>()
MapCollect ==
    /\ \E entries \in EntryLists :
          /\ vm_entries' = entries
          /\ vm' = FromIter(entries)
    /\ vm_key' = None
    /\ vm_result' = None
    /\ UNCHANGED <<vvars, tvars, ovars>>

\* vm.get(key)
MapLookup ==
    /\ \E key \in LookupKeys :
          /\ vm_key' = Some(key)
          /\ vm_result' = ValueMapping_get(vm, key)
    /\ UNCHANGED <<vm_entries, vm, vvars, tvars, ovars>>

NextM ==
    \/ MapCollect
    \/ MapLookup

SpecM == Init /\ [][NextM]_vars

\* ---------------------------------------------------------------- lowering
\* wast::token::Index
IndexNum(n) == [num |-> TRUE, n |-> n]
IndexId(name) == [num |-> FALSE, name |-> name]

index_to_string(index) ==
    IF index.num THEN usize_to_string(index.n) ELSE index.name

\* byte k (0 = least significant) of the two's complement of v, |v| < 2^31
ByteOf(v, k) ==
    IF k >= 4 THEN (IF v < 0 THEN 255 ELSE 0)
    ELSE IF v >= 0 THEN (v \div (256 ^ k)) % 256
    ELSE 255 - (((-v - 1) \div (256 ^ k)) % 256)

\* {integer}::to_be_bytes, n bytes, most significant first
to_be_bytes(v, n) == [k \in 1..n |-> ByteOf(v, n - k)]

\* {integer}::to_ne_bytes: the byte order of the build target
to_ne_bytes(v, n, order) ==
    IF order = "big" THEN to_be_bytes(v, n) ELSE [k \in 1..n |-> ByteOf(v, k - 1)]

four_byte_array(bytes, start) == SubSeq(bytes, start + 1, start + 4)

\* helper.rs, SerializedNumber and its From impls
SerializedNumber(first_bytes, second_bytes, typ) ==
    [first_bytes |-> first_bytes, second_bytes |-> second_bytes, typ |-> typ]

SerializedNumber_from_i32(value) ==
    SerializedNumber(to_be_bytes(value, 4), None, "I32")

SerializedNumber_from_i64(value) ==
    SerializedNumber(four_byte_array(to_be_bytes(value, 8), 0),
                     Some(four_byte_array(to_be_bytes(value, 8), 4)), "I64")

SerializedNumber_from_Float32(bits) ==
    SerializedNumber(to_be_bytes(bits, 4), None, "F32")

SerializedNumber_from_Float64(bits, order) ==
    SerializedNumber(four_byte_array(to_ne_bytes(bits, 8, order), 0),
                     Some(four_byte_array(to_ne_bytes(bits, 8, order), 4)), "F64")

\* From<i64> for an i64 given by its two 32-bit words, hi * 2^32 + lo with
\* 0 <= lo: the eight big-endian bytes are those of hi, then those of lo
SerializedNumber_from_i64_words(hi, lo) ==
    SerializedNumber(four_byte_array(to_be_bytes(hi, 4) \o to_be_bytes(lo, 4), 0),
                     Some(four_byte_array(to_be_bytes(hi, 4) \o to_be_bytes(lo, 4), 4)),
                     "I64")

\* u32::from_be_bytes
u32_from_be_bytes(b) == ((b[1] * 256 + b[2]) * 256 + b[3]) * 256 + b[4]

\* impl TryFrom<SerializedNumber> for u32
u32_try_from(value) ==
    IF value.second_bytes # None /\ \E k \in 1..4 : value.second_bytes[1][k] # 0
    THEN [ok |-> FALSE, value |-> 0, err |-> "number_to_large"]
    ELSE [ok |-> TRUE, value |-> u32_from_be_bytes(value.first_bytes), err |-> NoErr]

\* the wast opcodes of this model, by the arm of try_from that takes them
SimpleOps == {"Unreachable", "Nop", "Return", "Drop"}
DataOps == {"LocalGet", "LocalSet", "LocalTee", "GlobalGet", "GlobalSet"}
MemSizeOps == {"MemorySize", "MemoryGrow"}
LoadOps ==
    {"I32Load", "I64Load", "F32Load", "F64Load", "I32Load8s", "I32Load8u",
     "I32Load16s", "I32Load16u", "I64Load8s", "I64Load8u", "I64Load16s",
     "I64Load16u", "I64Load32s", "I64Load32u"}
StoreOps ==
    {"I32Store", "I64Store", "F32Store", "F64Store", "I32Store8", "I32Store16",
     "I64Store8", "I64Store16", "I64Store32"}
ConstOps == {"I32Const", "I64Const", "F32Const", "F64Const"}

data_type_of_instruction(op) ==
    CASE op \in {"F32Load", "F32Store", "F32Const"} -> "F32"
      [] op \in {"F64Load", "F64Store", "F64Const"} -> "F64"
      [] op \in {"I32Load", "I32Load8s", "I32Load8u", "I32Load16s", "I32Load16u",
                 "I32Store", "I32Store8", "I32Store16", "I32Const"} -> "I32"
      [] op \in {"I64Load", "I64Load8s", "I64Load8u", "I64Load16s", "I64Load16u",
                 "I64Load32s", "I64Load32u", "I64Store", "I64Store8",
                 "I64Store16", "I64Store32", "I64Const"} -> "I64"

try_byte_count_from(op) ==
    CASE op \in {"I32Load8s", "I32Store8", "I64Store8", "I32Load8u", "I64Load8s",
                 "I64Load8u"} -> "Bits8"
      [] op \in {"I32Store16", "I64Store16", "I32Load16s", "I32Load16u",
                 "I64Load16s", "I64Load16u"} -> "Bits16"
      [] op \in {"I32Load", "F32Load", "I64Load32s", "I64Load32u", "I32Store",
                 "F32Store", "I64Store32"} -> "Bits32"
      [] op \in {"I64Load", "F64Load", "I64Store", "F64Store"} -> "Bits64"

from_alignment(value) ==
    CASE value = 1 -> "Bits8"
      [] value = 2 -> "Bits16"
      [] value = 4 -> "Bits32"
      [] OTHER -> "Bits64"

try_simple_instruction_from(op) == op

try_data_instruction_from(op) ==
    CASE op = "LocalGet" -> "GetLocal"
      [] op = "LocalSet" -> "SetLocal"
      [] op = "LocalTee" -> "TeeLocal"
      [] op = "GlobalGet" -> "SetGlobal"
      [] op = "GlobalSet" -> "GetGlobal"
      [] op = "MemorySize" -> "GetMemorySize"
      [] op = "MemoryGrow" -> "SetMemorySize"

\* marker::try_cast_kind_from: the NumericConversionKind of a cast opcode
try_cast_kind_from(op) ==
    CASE op = "I32WrapI64" -> Some("WrapInt")
      [] op = "I32TruncF32S" -> Some("SignedTruncF32ToI32")
      [] op = "I32TruncF32U" -> Some("UnsignedTruncF32ToI32")
      [] op = "I32TruncF64S" -> Some("SignedTruncF64ToI32")
      [] op = "I32TruncF64U" -> Some("UnsignedTruncF64ToI32")
      [] op = "I64ExtendI32S" -> Some("SignedExtend")
      [] op = "I64ExtendI32U" -> Some("UnsignedExtend")
      [] op = "I64TruncF32S" -> Some("SignedTruncF32ToI64")
      [] op = "I64TruncF32U" -> Some("UnsignedTruncF32ToI64")
      [] op = "I64TruncF64S" -> Some("SignedTruncF64ToI64")
      [] op = "I64TruncF64U" -> Some("UnsignedTruncF64ToI64")
      [] op = "F32ConvertI32S" -> Some("SignedConvertI32ToF32")
      [] op = "F32ConvertI32U" -> Some("UnsignedConvertI32ToF32")
      [] op = "F32ConvertI64S" -> Some("SignedConvertI64ToF32")
      [] op = "F32ConvertI64U" -> Some("UnsignedConvertI64ToF32")
      [] op = "F32DemoteF64" -> Some("DemoteFloat")
      [] op = "F64ConvertI32S" -> Some("SignedConvertI32ToF64")
      [] op = "F64ConvertI32U" -> Some("UnsignedConvertI32ToF64")
      [] op = "F64ConvertI64S" -> Some("SignedConvertI64ToF64")
      [] op = "F64ConvertI64U" -> Some("UnsignedConvertI64ToF64")
      [] op = "F64PromoteF32" -> Some("PromoteFloat")
      [] op = "I32ReinterpretF32" -> Some("Reinterpret32FToI")
      [] op = "I64ReinterpretF64" -> Some("Reinterpret64FToI")
      [] op = "F32ReinterpretI32" -> Some("Reinterpret32IToF")
      [] op = "F64ReinterpretI64" -> Some("Reinterpret64IToF")
      [] OTHER -> None

\* the opcodes of the cast arm of try_from
CastOps ==
    {"I32WrapI64", "I32TruncF32S", "I32TruncF32U", "I32TruncF64S",
     "I32TruncF64U", "I64ExtendI32S", "I64ExtendI32U", "I64TruncF32S",
     "I64TruncF32U", "I64TruncF64S", "I64TruncF64U", "F32ConvertI32S",
     "F32ConvertI32U", "F32ConvertI64S", "F32ConvertI64U", "F32DemoteF64",
     "F64ConvertI32S", "F64ConvertI32U", "F64ConvertI64S", "F64ConvertI64U",
     "F64PromoteF32", "I32ReinterpretF32", "I64ReinterpretF64", "F32ReinterpretI32",
     "F64ReinterpretI64"}

\* the Index immediates of the wast Instructions handed to try_from
WastIndexes == {IndexNum(0), IndexId(<<"g">>), IndexId(<<"h">>), IndexId(<<"x">>)}
WastMemories == {IndexNum(0), IndexId(<<"m">>)}

\* impl TryFrom<&Instruction> for SerializedInstruction, on these opcodes;
\* `order` is the byte order of the build target. (m.offset as u32 truncates
\* only offsets of 2^32 and more, which LowerMemory does not draw.)
SerializedInstruction_try_from(value, order) ==
    CASE value.opcode \in SimpleOps ->
            Simple(try_simple_instruction_from(value.opcode))
      [] value.opcode \in DataOps ->
            Data(try_data_instruction_from(value.opcode), index_to_string(value.index))
      [] value.opcode \in MemSizeOps ->
            Data(try_data_instruction_from(value.opcode), index_to_string(value.mem))
      [] value.opcode \in LoadOps \cup StoreOps ->
            [op |-> "Memory",
             location |-> index_to_string(value.memarg.memory),
             typ |-> data_type_of_instruction(value.opcode),
             count |-> try_byte_count_from(value.opcode),
             offset |-> value.memarg.offset,
             alignment |-> from_alignment(value.memarg.align),
             is_storing |-> value.opcode \in StoreOps]
      [] value.opcode = "I32Const" ->
            [op |-> "Const", typ |-> "I32", value |-> SerializedNumber_from_i32(value.value)]
      [] value.opcode = "I64Const" ->
            [op |-> "Const", typ |-> "I64", value |-> SerializedNumber_from_i64(value.value)]
      [] value.opcode = "F32Const" ->
            [op |-> "Const", typ |-> "F32",
             value |-> SerializedNumber_from_Float32(value.value)]
      [] value.opcode = "F64Const" ->
            [op |-> "Const", typ |-> "I64",
             value |-> SerializedNumber_from_Float64(value.value, order)]
      [] value.opcode \in CastOps ->
            IF try_cast_kind_from(value.opcode) = None
            THEN [op |-> "Error", e |-> "invalid_instruction"]
            ELSE [op |-> "Conversion", c |-> try_cast_kind_from(value.opcode)[1]]
      [] OTHER -> [op |-> "DefaultString", s |-> value.opcode]

\* SerializedInstruction::try_from(instruction), for the next instruction of
\* the body once the previous one is validated
Lower(value) ==
    /\ status = "running"
    /\ l_out = None
    /\ \E order \in {"big", "little"} :
          l_out' = Some(SerializedInstruction_try_from(value, order))
    /\ l_op' = Some(value)
    /\ UNCHANGED <<vvars, tvars, mvars, avars, nvars>>

LowerSimple ==
    \E o \in SimpleOps \cup {"Select"} : Lower([opcode |-> o])

LowerData ==
    \/ \E o \in DataOps, i \in WastIndexes : Lower([opcode |-> o, index |-> i])
    \/ \E o \in MemSizeOps, m \in WastMemories : Lower([opcode |-> o, mem |-> m])

LowerMemory ==
    \E o \in LoadOps \cup StoreOps, a \in {1, 4}, m \in WastMemories :
        Lower([opcode |-> o, memarg |-> [align |-> a, offset |-> 0, memory |-> m]])

LowerConst ==
    \/ \E o \in {"I32Const", "I64Const"}, v \in {-1, 0, 1, 16909060} :
          Lower([opcode |-> o, value |-> v])
    \/ \E o \in {"F32Const", "F64Const"}, v \in {0, 1, 16909060} :
          Lower([opcode |-> o, value |-> v])

\* validate(&lowered) on the instruction just lowered, which it consumes
ValidateLowered ==
    /\ l_out # None
    /\ StepOf(l_out[1], MaxLowerStack, MaxDepth)
    /\ l_op' = None
    /\ l_out' = None
    /\ UNCHANGED <<avars, nvars>>

NextL ==
    \/ StartFunction
    \/ LowerSimple
    \/ LowerData
    \/ LowerMemory
    \/ LowerConst
    \/ ValidateLowered
    \/ FinishFunction

SpecL == Init /\ [][NextL]_vars

\* casts: the lowering of every cast opcode, then its validation, on stacks
\* built from lowered constants
LowerCast ==
    \E o \in CastOps : Lower([opcode |-> o])

NextC ==
    \/ StartFunction
    \/ LowerConst
    \/ LowerCast
    \/ ValidateLowered
    \/ FinishFunction

SpecC == Init /\ [][NextC]_vars

\* u32::try_from(SerializedNumber::from(v)) for a constant v: an i64 of
\* words hi and lo, or a non-negative i32
NumberToU32 ==
    /\ \/ \E hi \in 0..MaxHighWord, lo \in 0..MaxLowWord :
             /\ n_value' = Some([typ |-> "I64", hi |-> hi, lo |-> lo])
             /\ n_u32' = Some(u32_try_from(SerializedNumber_from_i64_words(hi, lo)))
       \/ \E v \in 0..MaxLowWord :
             /\ n_value' = Some([typ |-> "I32", hi |-> 0, lo |-> v])
             /\ n_u32' = Some(u32_try_from(SerializedNumber_from_i32(v)))
    /\ UNCHANGED <<vvars, tvars, mvars, lvars, avars>>

NextN == NumberToU32

SpecN == Init /\ [][NextN]_vars

\* the locals of try_new and the error it stops with, if any
As(e, g, m, f, er) ==
    [exported |-> e, globals |-> g, memory |-> m, func |-> f, err |-> er]

\* exported.extend(names.iter().map(|name| (name, (kind, index))))
RECURSIVE exported_extend(_, _, _, _)
exported_extend(e, names, kind, index) ==
    IF names = <<>> THEN e
    ELSE exported_extend(MapInsert(e, Head(names), <<kind, index>>),
                         Tail(names), kind, index)

\* for (i, x) in list.iter().enumerate() { if x.name == name { insert; break } }
exported_insert_found(e, list, name, export_name, kind) ==
    IF \E i \in 1..Len(list) : list[i].name = name
    THEN MapInsert(e, export_name,
                   <<kind, (CHOOSE i \in 1..Len(list) :
                               /\ list[i].name = name
                               /\ \A j \in 1..(i - 1) : list[j].name # name) - 1>>)
    ELSE e

\* ModuleField::Func: the inline exports, WastFunc::try_from, the default name
try_new_Func(f, e, g, m, fn) ==
    IF f.kind = "Import" THEN As(e, g, m, fn, "unimplemented")
    ELSE As(exported_extend(e, f.exports, "Function", Len(fn)), g, m,
            Append(fn, [name |-> IF f.id = None
                                  THEN Some(usize_to_string(Len(fn))) ELSE f.id]),
            NoErr)

\* ModuleField::Memory
try_new_Memory(mem, e, g, m, fn) ==
    IF mem.kind # "Normal" THEN As(e, g, m, fn, "unimplemented")
    ELSE As(exported_extend(e, mem.exports, "Memory", Len(fn)), g,
            Append(m, [name |-> IF mem.id = None THEN <<>> ELSE mem.id[1]]),
            fn, NoErr)

\* ModuleField::Global
try_new_Global(gl, e, g, m, fn) ==
    IF gl.kind = "Import" THEN As(e, g, m, fn, "unimplemented")
    ELSE As(exported_extend(e, gl.exports, "Global", Len(fn)),
            Append(g, [name |-> IF gl.id = None THEN <<>> ELSE gl.id[1]]),
            m, fn, NoErr)

\* ModuleField::Export
try_new_Export(ex, e, g, m, fn) ==
    CASE ex.kind = "Func" ->
            As(exported_insert_found(e, fn, Some(index_to_string(ex.item)),
                                     ex.name, "Function"), g, m, fn, NoErr)
      [] ex.kind = "Memory" ->
            As(exported_insert_found(e, m, index_to_string(ex.item),
                                     ex.name, "Memory"), g, m, fn, NoErr)
      [] ex.kind = "Global" ->
            As(exported_insert_found(e, g, index_to_string(ex.item),
                                     ex.name, "Global"), g, m, fn, NoErr)
      [] OTHER -> As(e, g, m, fn, Panic)

\* one iteration of the loop over `fields`
AssembleField(field, r) ==
    /\ astatus = "running"
    /\ a_i < MaxFields
    /\ a_i' = a_i + 1
    /\ a_field' = field
    /\ exported' = r.exported
    /\ a_globals' = r.globals
    /\ a_memory' = r.memory
    /\ a_func' = r.func
    /\ aerr' = r.err
    /\ astatus' = IF r.err = NoErr THEN "running"
                  ELSE IF r.err = Panic THEN "panic" ELSE "err"
    /\ UNCHANGED <<t_result, vvars, tvars, mvars, lvars, nvars>>

\* transform, from the parsed module to the call of try_new, for a module in
\* the text format (ModuleKind::Text)
TransformStart ==
    /\ astatus = "idle"
    /\ astatus' = "running"
    /\ UNCHANGED <<exported, a_globals, a_memory, a_func, a_field, a_i, aerr,
                   t_result, vvars, tvars, mvars, lvars, nvars>>

AssembleFunc ==
    \E id \in {None, Some(<<"f">>)}, ex \in {<<>>, <<<<"a">>>>}, k \in {"Inline", "Import"} :
        \E f \in {[field |-> "Func", id |-> id, exports |-> ex, kind |-> k]} :
            AssembleField(f, try_new_Func(f, exported, a_globals, a_memory, a_func))

AssembleMemory ==
    \E id \in {None, Some(<<"m">>)}, ex \in {<<>>, <<<<"a">>>>},
       k \in {"Normal", "Import", "Inline"} :
        \E f \in {[field |-> "Memory", id |-> id, exports |-> ex, kind |-> k]} :
            AssembleField(f, try_new_Memory(f, exported, a_globals, a_memory, a_func))

AssembleGlobal ==
    \E id \in {None, Some(<<"g">>)}, ex \in {<<>>, <<<<"a">>>>}, k \in {"Inline", "Import"} :
        \E f \in {[field |-> "Global", id |-> id, exports |-> ex, kind |-> k]} :
            AssembleField(f, try_new_Global(f, exported, a_globals, a_memory, a_func))

AssembleExport ==
    \E k \in {"Func", "Memory", "Global", "Table", "Tag"},
       item \in {IndexNum(0), IndexId(<<"f">>), IndexId(<<"m">>), IndexId(<<"g">>)},
       name \in {<<"a">>, <<"b">>} :
        \E f \in {[field |-> "Export", kind |-> k, item |-> item, name |-> name]} :
            AssembleField(f, try_new_Export(f, exported, a_globals, a_memory, a_func))

\* the fields answered with todo!()
AssembleOther ==
    \E k \in {"Type", "Rec", "Import", "Table", "Start", "Elem", "Data", "Tag", "Custom"} :
        AssembleField([field |-> k],
                      As(exported, a_globals, a_memory, a_func, Panic))

\* Ok(InterpreterStructure { .. })
AssemblyFinish ==
    /\ astatus = "running"
    /\ astatus' = "ok"
    /\ a_field' = NoField
    /\ UNCHANGED <<exported, a_globals, a_memory, a_func, a_i, aerr, t_result,
                   vvars, tvars, mvars, lvars, nvars>>

\* transform, after try_new returned: module.resolve() of the wast crate,
\* whose error is returned with `?`, else final_result
TransformReturn ==
    /\ astatus \in {"ok", "err"}
    /\ t_result = None
    /\ \E resolve_ok \in BOOLEAN :
          t_result' = Some(IF resolve_ok THEN aerr ELSE "resolution")
    /\ UNCHANGED <<exported, a_globals, a_memory, a_func, a_field, a_i, astatus,
                   aerr, vvars, tvars, mvars, lvars, nvars>>

NextA ==
    \/ TransformStart
    \/ AssembleFunc
    \/ AssembleMemory
    \/ AssembleGlobal
    \/ AssembleExport
    \/ AssembleOther
    \/ AssemblyFinish
    \/ TransformReturn

SpecA == Init /\ [][NextA]_vars

\* ------------------------------------------------- properties (validator)
\* the transition is the end of validate_function
IsFinish == status = "running" /\ cur'.op = "None" /\ status' # "running"

\* the transition validates an instruction of family op
IsStep(op) == status = "running" /\ cur'.op = op

IsUnreachableInstr(ins) == ins.op = "Simple" /\ ins.s = "Unreachable"

\* the stack ends with the types ts, the last of ts on top
EndsWith(vs, ts) ==
    /\ Len(vs) >= Len(ts)
    /\ SubSeq(vs, Len(vs) - Len(ts) + 1, Len(vs)) = ts

DropLast(vs, n) == SubSeq(vs, 1, Len(vs) - n)

\* the declared item an identifier denotes: its zero-based position written
\* in decimal, or its name
Denotes(list, key) ==
    {i \in 1..Len(list) : key = usize_to_string(i - 1) \/ key = list[i].name}

\* the same for a list whose names are optional
DenotesOpt(list, key) ==
    {i \in 1..Len(list) : key = usize_to_string(i - 1) \/ Some(key) = list[i].name}

\* C1: validate_function returns Ok only with an empty value stack; when
\* the results were popped and a value remains, it fails with the
\* extra-items-on-stack error of stage TypeChecking; results [I32] over a
\* stack [I32, I32] is rejected that way.
C1_OkOnlyWithEmptyStack ==
    [][ IsFinish =>
          /\ status' = "ok" => value_stack' = <<>>
          /\ (err' \notin {"empty_stack", "unexpected_type"} /\ value_stack' # <<>>)
                => /\ status' = "err"
                   /\ err' = "extra_items_on_stack"
                   /\ ErrorStage(err') = "TypeChecking"
          /\ (results = <<T_I32>> /\ value_stack = <<T_I32, T_I32>>)
                => status' = "err" /\ err' = "extra_items_on_stack"
      ]_vars

C1_Witness ==
    /\ status = "err" /\ err = "extra_items_on_stack"
    /\ results = <<T_I32>> /\ value_stack = <<T_I32>> /\ cur.op = "None"

\* C2: after Unreachable the stack is polymorphic: a function whose body
\* ends with Unreachable at function level is accepted whatever its results
\* are, and a Drop that follows Unreachable is not rejected.
C2_PolymorphicAfterUnreachable ==
    [][ (status = "running" /\ IsUnreachableInstr(cur)) =>
          /\ (cur'.op = "None" /\ control_stack = <<>>) => status' = "ok"
          /\ (cur'.op = "Simple" /\ cur'.s = "Drop") => status' = "running"
      ]_vars

\* C3: br 0 at function level, with the function's results on the stack,
\* is accepted.
C3_BranchToFunctionFrame ==
    [][ ( /\ IsStep("Branch")
          /\ control_stack = <<>>
          /\ cur'.default_label = <<"0">>
          /\ cur'.other_labels = <<>>
          /\ ~cur'.is_conditional
          /\ EndsWith(value_stack, results) )
        => status' = "running"
      ]_vars

\* C4: a direct call pops the callee's declared parameters and pushes its
\* declared results; an identifier that names no function is a
\* NameResolving error.
C4_CallUsesCalleeSignature ==
    [][ (IsStep("Call") /\ cur'.inout = InputOutput_default) =>
          LET callee == DenotesOpt(structure.func, cur'.index)
          IN  IF callee = {}
              THEN status' = "err" /\ ErrorStage(err') = "NameResolving"
              ELSE \A i \in callee :
                     EndsWith(value_stack, structure.func[i].input)
                     => /\ status' = "running"
                        /\ value_stack' =
                             DropLast(value_stack, Len(structure.func[i].input))
                             \o structure.func[i].output
      ]_vars

\* C5: global.set n fails with immutable-global (TypeChecking) when n
\* denotes an immutable global; pops exactly one value of the global's type
\* when it is mutable (another top type is unexpected-type); and fails with
\* a NameResolving error when n denotes no global.
C5_SetGlobal ==
    [][ (IsStep("Data") /\ cur'.kind = "SetGlobal") =>
          LET g == Denotes(structure.globals, cur'.location)
          IN  IF g = {}
              THEN status' = "err" /\ ErrorStage(err') = "NameResolving"
              ELSE \A i \in g :
                     IF ~structure.globals[i].is_mutable
                     THEN /\ status' = "err"
                          /\ err' = "immutable_global"
                          /\ ErrorStage(err') = "TypeChecking"
                     ELSE IF value_stack = <<>> THEN status' = "err"
                     ELSE IF Last(value_stack) = structure.globals[i].typ
                     THEN /\ status' = "running"
                          /\ value_stack' = Front(value_stack)
                          /\ control_stack' = control_stack
                     ELSE status' = "err" /\ err' = "unexpected_type"
      ]_vars

C5_Witness ==
    /\ cur.op = "Data" /\ cur.kind = "SetGlobal" /\ cur.location = <<"g">>
    /\ status = "err" /\ err = "immutable_global"

C5_WitnessMutable ==
    /\ cur.op = "Data" /\ cur.kind = "SetGlobal" /\ cur.location = <<"h">>
    /\ status = "running"

\* the label types of the frame a branch label denotes: a number counts
\* frames from the innermost one, a name denotes the innermost frame so named
LabelTypesAt(cs, label) ==
    LET inner == {k \in 1..Len(cs) :
                    \/ label = usize_to_string(Len(cs) - k)
                    \/ cs[k].label = Some(label)}
    IN  IF inner = {} THEN None
        ELSE Some(label_types(cs[CHOOSE k \in inner : \A j \in inner : j <= k]))

\* C6: an accepted table branch has only additional labels whose label types
\* equal the default label's label types.
C6_TableBranchLabelTypesEqual ==
    [][ (IsStep("Branch") /\ cur'.other_labels # <<>> /\ status' = "running") =>
          \A k \in 1..Len(cur'.other_labels) :
             LabelTypesAt(control_stack, cur'.other_labels[k])
               = LabelTypesAt(control_stack, cur'.default_label)
      ]_vars

\* the verdict of one instruction in the current state
Verdict(ins) ==
    LET r == validate(ins, value_stack, control_stack, results, local_vars)
    IN  <<r.err, r.vs>>

\* C10: an instruction addressing memory i by its index validates like the
\* same instruction addressing it by its name.
C10_MemoryByIndexOrName ==
    status = "running" =>
      \A i \in 1..Len(structure.memory) :
        LET byIndex == usize_to_string(i - 1)
            byName == structure.memory[i].name
        IN  /\ \A k \in {"GetMemorySize", "SetMemorySize"} :
                  Verdict(Data(k, byIndex)) = Verdict(Data(k, byName))
            /\ \A t \in {T_I32, T_F32}, st \in BOOLEAN :
                  Verdict(Memory(byIndex, t, st)) = Verdict(Memory(byName, t, st))

\* C13: when a frame is popped (End, Else) and the value stack, less the
\* frame's end_types, is not at the frame's height, whether below or above it,
\* the step fails with an error value; and no step makes the validator abort.
C13_PopControlArityIsAnError ==
    [][ /\ (/\ IsStep("Block") /\ cur'.kind \in {"End", "Else"}
            /\ control_stack # <<>>
            /\ Len(value_stack) - Len(Last(control_stack).end_types)
                 # Last(control_stack).height)
           => status' = "err"
        /\ status' # "panic"
      ]_vars

\* ---------------------------------------------- properties (block assembly)
IsMarker(ins, kind) == ins.op = "Block" /\ ins.kind = kind

\* the kinds of the blocks left open by a stream, innermost last: Block, Loop
\* and If open one, an Else turns the If it follows into its else branch, an
\* End closes the innermost
RECURSIVE OpenKinds(_)
OpenKinds(s) ==
    IF s = <<>> THEN <<>>
    ELSE The({ IF Last(s).op # "Block" THEN o
               ELSE IF Last(s).kind = "End"
                    THEN (IF o = <<>> THEN o ELSE Front(o))
               ELSE IF Last(s).kind = "Else"
                    THEN (IF o # <<>> /\ Last(o) = "If"
                          THEN Append(Front(o), "Else") ELSE o)
               ELSE Append(o, Last(s).kind)
               : o \in {OpenKinds(Front(s))} })

\* an Else arrives while the innermost open block is not an If
StrayElse(s) ==
    \E k \in 1..Len(s) :
        /\ IsMarker(s[k], "Else")
        /\ \E o \in {OpenKinds(SubSeq(s, 1, k - 1))} : o = <<>> \/ Last(o) # "If"

\* the Ends that arrive while no block is open
StrayEnds(s) ==
    Cardinality({k \in 1..Len(s) :
                    IsMarker(s[k], "End") /\ OpenKinds(SubSeq(s, 1, k - 1)) = <<>>})

CountEnds(s) == Cardinality({k \in 1..Len(s) : IsMarker(s[k], "End")})

\* the SingleBlock and ConditionalBlock nodes of a forest, at every depth
RECURSIVE CountBlocks(_)
CountBlocks(nodes) ==
    IF nodes = <<>> THEN 0
    ELSE CountBlocks(Front(nodes))
         + (CASE Last(nodes).node = "NonBlock" -> 0
              [] Last(nodes).node = "SingleBlock" ->
                    1 + CountBlocks(Last(nodes).inner_nodes)
              [] Last(nodes).node = "ConditionalBlock" ->
                    1 + CountBlocks(Last(nodes).then_nodes)
                      + CountBlocks(Last(nodes).else_nodes))

\* C7: a stream in which an Else arrives while the innermost open block is
\* not an If (or no block is open) is rejected with an error value, whatever
\* follows the Else: assembly never ends with a tree or with a panic on it.
C7_StrayElseRejected ==
    (tstatus \in {"ok", "err", "panic"} /\ StrayElse(stream)) => tstatus = "err"

\* C8: for every tree that assembly produces, the number of End markers of
\* the stream is the number of SingleBlock and ConditionalBlock nodes of the
\* tree plus 1.
C8_EndsAreBlocksPlusOne ==
    tstatus = "ok" => CountEnds(stream) = CountBlocks(current) + 1

\* C8 (amended): for every tree that assembly produces, the number of End
\* markers of the stream is the number of SingleBlock and ConditionalBlock
\* nodes of the tree, plus 1 exactly when the stream holds a function-ending
\* End, that is an End arriving while no block is open.
C8_EndsAreBlocksPlusFunctionEnd ==
    tstatus = "ok" =>
        CountEnds(stream) = CountBlocks(current)
                            + (IF StrayEnds(stream) > 0 THEN 1 ELSE 0)

\* a tree with an if/else inside another block, from a stream with no
\* function-ending End
C8_Witness ==
    /\ tstatus = "ok"
    /\ CountBlocks(current) = 2
    /\ CountEnds(stream) = 2
    /\ \E k \in 1..Len(stream) : IsMarker(stream[k], "Else")

\* C14: when the stream ends while frames are still open (the frame stack is
\* not empty), assembly returns an error value: no tree, no abort.
C14_OpenFramesAtEndAreAnError ==
    [][ (tstatus = "running" /\ tstatus' # "running" /\ stream' = stream
         /\ wait_stack # <<>>)
        => tstatus' = "err"
      ]_vars

\* ------------------------------------------- properties (identifier tables)
\* C9: after a lookup, if the key is the decimal index of a named entry or
\* the name of an entry, the result is that entry's value; if the key is an
\* index past the end, or a name no entry has, the result is none.
C9_IndexAndNameAgree ==
    vm_key # None =>
        /\ \A i \in 0..(Len(vm_entries) - 1) :
              (/\ vm_entries[i + 1][1] # None
               /\ \/ vm_key[1] = usize_to_string(i)
                  \/ vm_key[1] = vm_entries[i + 1][1][1])
              => vm_result = Some(vm_entries[i + 1][2])
        /\ (/\ \A i \in 1..Len(vm_entries) : vm_entries[i][1] # vm_key
            /\ \/ try_name_to_index(vm_key[1]) >= Len(vm_entries)
               \/ try_name_to_index(vm_key[1]) < 0)
           => vm_result = None

\* ------------------------------------------------------ properties (lowering)
\* the transition validates the instruction lowered from an opcode of ops
IsValidateLowered(ops) ==
    l_op # None /\ l_op[1].opcode \in ops /\ l_out # None /\ l_out' = None

\* the opcodes that take immediates of the same form as op
OpsLike(op) ==
    CASE op \in LoadOps \cup StoreOps -> LoadOps \cup StoreOps
      [] op \in DataOps -> DataOps
      [] op \in MemSizeOps -> MemSizeOps
      [] op \in ConstOps -> ConstOps
      [] OTHER -> SimpleOps \cup {"Select"}

\* C11: no other supported opcode with the same immediates lowers to the
\* instruction just produced; in particular the signed and unsigned narrow
\* loads lower to different Memory instructions.
C11_LoweringInjective ==
    l_op # None =>
        \A o \in OpsLike(l_op[1].opcode) \ {l_op[1].opcode} :
            \A order \in {"big", "little"} :
                SerializedInstruction_try_from([l_op[1] EXCEPT !.opcode = o], order)
                    # l_out[1]

\* C12: a const opcode lowers to a Const whose typ is the opcode's declared
\* type and the type tag of its payload, and validating it pushes that type
\* (F64 for f64.const).
C12_ConstTypeIsDeclaredType ==
    [][ /\ (l_op' # None /\ l_op'[1].opcode \in ConstOps) =>
              /\ l_out'[1].op = "Const"
              /\ l_out'[1].typ = data_type_of_instruction(l_op'[1].opcode)
              /\ l_out'[1].value.typ = l_out'[1].typ
        /\ (IsValidateLowered(ConstOps) /\ status' = "running") =>
              value_stack' = Append(value_stack,
                                    data_type_of_instruction(l_op[1].opcode))
      ]_vars

\* C19: the payload of a lowered constant holds the value's bytes in
\* big-endian order: first_bytes the most significant four, and for I64 and
\* F64 second_bytes the least significant four; an f64 constant is laid out
\* like the i64 constant of the same 64-bit pattern.
C19_BigEndianPayload ==
    (l_op # None /\ l_op[1].opcode \in ConstOps) =>
        IF l_op[1].opcode \in {"I32Const", "F32Const"}
        THEN /\ l_out[1].value.first_bytes = [k \in 1..4 |-> ByteOf(l_op[1].value, 4 - k)]
             /\ l_out[1].value.second_bytes = None
        ELSE /\ l_out[1].value.first_bytes = [k \in 1..4 |-> ByteOf(l_op[1].value, 8 - k)]
             /\ l_out[1].value.second_bytes
                  = Some([k \in 1..4 |-> ByteOf(l_op[1].value, 4 - k)])
             /\ l_out[1].value.first_bytes
                  = SerializedNumber_from_i64(l_op[1].value).first_bytes
             /\ l_out[1].value.second_bytes
                  = SerializedNumber_from_i64(l_op[1].value).second_bytes

\* the Data kind that means what the opcode means
DataKindOf(op) ==
    CASE op = "LocalGet" -> "GetLocal"
      [] op = "LocalSet" -> "SetLocal"
      [] op = "LocalTee" -> "TeeLocal"
      [] op = "GlobalGet" -> "GetGlobal"
      [] op = "GlobalSet" -> "SetGlobal"
      [] op = "MemorySize" -> "GetMemorySize"
      [] op = "MemoryGrow" -> "SetMemorySize"

\* the globals an index of the wast module denotes
GlobalsOf(index) == Denotes(structure.globals, index_to_string(index))

\* C20: each data opcode lowers to the Data kind of the same meaning, so that
\* validating global.set on an immutable global fails with immutable-global
\* and validating global.get on an immutable global pushes its type.
C20_DataKindOfSameMeaning ==
    [][ /\ (l_op' # None /\ l_op'[1].opcode \in DataOps \cup MemSizeOps) =>
              /\ l_out'[1].op = "Data"
              /\ l_out'[1].kind = DataKindOf(l_op'[1].opcode)
        /\ IsValidateLowered({"GlobalSet"}) =>
              \A i \in GlobalsOf(l_op[1].index) :
                  ~structure.globals[i].is_mutable =>
                      status' = "err" /\ err' = "immutable_global"
        /\ (IsValidateLowered({"GlobalGet"}) /\ Len(value_stack) < MaxLowerStack) =>
              \A i \in GlobalsOf(l_op[1].index) :
                  ~structure.globals[i].is_mutable =>
                      /\ status' = "running"
                      /\ value_stack' = Append(value_stack, structure.globals[i].typ)
      ]_vars

\* ------------------------------------------------ properties (module assembly)
\* the transition consumes one module field
IsAssemble == astatus = "running" /\ a_i' = a_i + 1

ExportedNames(e) == {p[1] : p \in e}

\* the names a field registers in the export map
NamesOf(field) ==
    CASE field.field \in {"Func", "Memory", "Global"} ->
            {field.exports[k] : k \in 1..Len(field.exports)}
      [] field.field = "Export" -> {field.name}
      [] OTHER -> {}

\* the zero-based positions, in the list of its kind, of the item an export
\* field names by index or by identifier
TargetsOf(field) ==
    LET list == CASE field.kind = "Func" -> a_func
                  [] field.kind = "Memory" -> a_memory
                  [] field.kind = "Global" -> a_globals
                  [] OTHER -> <<>>
    IN  IF field.item.num
        THEN {i \in 0..(Len(list) - 1) : i = field.item.n}
        ELSE {i \in 0..(Len(list) - 1) :
                 list[i + 1].name = IF field.kind = "Func"
                                    THEN Some(field.item.name) ELSE field.item.name}

\* C15: every unsupported module field (Import, Table, Element, Tag, Custom,
\* Rec, Type) is answered with an error value of stage Unimplemented: no
\* abort, no structure.
C15_UnsupportedFieldIsUnimplemented ==
    [][ (IsAssemble /\ a_field'.field \in {"Import", "Table", "Elem", "Tag",
                                           "Custom", "Rec", "Type"})
        => (astatus' = "err" /\ ErrorStage(aerr') = "Unimplemented")
      ]_vars

\* C16: a field that registers an export name the map already holds makes
\* assembly fail with an error.
C16_DuplicateExportRejected ==
    [][ (IsAssemble /\ NamesOf(a_field') \cap ExportedNames(exported) # {})
        => astatus' = "err"
      ]_vars

\* C17: an inline export on a function, memory or global maps its name to the
\* position of that item in the list of its kind; an export field maps its
\* name to the position of the item it names and is an error when it names
\* none; every index of the map is smaller than the length of its list.
C17_ExportIndexIsItemPosition ==
    [][ IsAssemble =>
          /\ (astatus' = "running" /\ a_field'.field = "Func") =>
                \A n \in NamesOf(a_field') :
                    MapGet(exported', n) = Some(<<"Function", Len(a_func)>>)
          /\ (astatus' = "running" /\ a_field'.field = "Memory") =>
                \A n \in NamesOf(a_field') :
                    MapGet(exported', n) = Some(<<"Memory", Len(a_memory)>>)
          /\ (astatus' = "running" /\ a_field'.field = "Global") =>
                \A n \in NamesOf(a_field') :
                    MapGet(exported', n) = Some(<<"Global", Len(a_globals)>>)
          /\ (a_field'.field = "Export"
              /\ a_field'.kind \in {"Func", "Memory", "Global"}) =>
                IF TargetsOf(a_field') = {} THEN astatus' = "err"
                ELSE /\ astatus' = "running"
                     /\ MapGet(exported', a_field'.name) # None
                     /\ MapGet(exported', a_field'.name)[1][2] \in TargetsOf(a_field')
          /\ astatus' = "running" =>
                \A p \in exported' :
                    p[2][2] < Len(CASE p[2][1] = "Function" -> a_func'
                                    [] p[2][1] = "Memory" -> a_memory'
                                    [] p[2][1] = "Global" -> a_globals')
      ]_vars

\* C18: when module assembly failed, transform returns that error: the error
\* of the later name-resolution stage never replaces it.
C18_AssemblyErrorIsReturned ==
    [][ (t_result = None /\ t_result' # None /\ astatus = "err")
        => t_result' = Some(aerr)
      ]_vars

\* ------------------------------------- properties (validator, stack effects)
\* the transition validates a Return
IsReturn == IsStep("Simple") /\ cur'.s = "Return"

\* C21: pop_vals(ts) matches the last element of ts against the top of the
\* value stack and the first against the deepest of the |ts| popped values:
\* popping the results (at Return and at the end of the function) succeeds
\* when the stack ends with them, the last on top, and fails with
\* unexpected-type when the stack holds enough values in another order.
C21_PopValsLastOnTop ==
    [][ (IsFinish \/ IsReturn) =>
          /\ EndsWith(value_stack, results)
               => /\ err' \notin {"unexpected_type", "empty_stack"}
                  /\ value_stack' = DropLast(value_stack, Len(results))
          /\ (Len(value_stack) >= Len(results) /\ ~EndsWith(value_stack, results))
               => err' = "unexpected_type"
      ]_vars

\* the transition validates a branch with a single target
IsSingleBranch == IsStep("Branch") /\ cur'.other_labels = <<>>

\* C22: an accepted br_if leaves the value stack as it was less the I32
\* condition, whatever the label's types are, and leaves the control stack
\* (frames and their unreachable flags) unchanged.
C22_BrIfKeepsStack ==
    [][ (IsSingleBranch /\ cur'.is_conditional /\ status' = "running") =>
          /\ value_stack # <<>>
          /\ Last(value_stack) = T_I32
          /\ value_stack' = Front(value_stack)
          /\ control_stack' = control_stack
      ]_vars

\* C23: a numeric label k denotes the frame k levels out from the innermost
\* open frame: the branch is checked against that frame's label types; a
\* depth that is not smaller than the number of open frames is an
\* out-of-range error.
C23_NumericLabelCountsFromTop ==
    [][ (IsSingleBranch /\ try_name_to_index(cur'.default_label) >= 0) =>
          LET k == try_name_to_index(cur'.default_label)
              n == Len(control_stack)
          IN  IF k >= n
              THEN status' = "err" /\ err' = "index_out_of_range"
              ELSE LET r == branch_to(cur', value_stack, control_stack,
                                      label_types(control_stack[n - k]))
                   IN  /\ err' = r.err
                       /\ value_stack' = r.vs
                       /\ control_stack' = r.cs
      ]_vars

\* the transition is an Unreachable, or an accepted br or br_table
IsDiverging ==
    \/ IsStep("Simple") /\ IsUnreachableInstr(cur')
    \/ /\ IsStep("Branch")
       /\ cur'.other_labels # <<>> \/ ~cur'.is_conditional
       /\ status' = "running"

\* C25: after Unreachable, and after an accepted br or br_table, the top
\* frame is marked unreachable, the value stack is as long as that frame's
\* height, and the frames below the top one are as they were.
C25_DivergingDropsToHeight ==
    [][ (IsDiverging /\ control_stack # <<>>) =>
          /\ Len(control_stack') = Len(control_stack)
          /\ Last(control_stack').unreachable
          /\ Len(value_stack') = Last(control_stack').height
          /\ Front(control_stack') = Front(control_stack)
      ]_vars

\* C24: a branch must supply the target frame's start_types when the target
\* is a Loop frame and its end_types when it is a Block, If or Else frame: an
\* accepted br pops exactly that many values, is rejected when fewer are
\* there, and for a single type is accepted exactly when that type is on top.
C24_BranchSuppliesLabelTypes ==
    [][ (IsSingleBranch /\ ~cur'.is_conditional) =>
          LET d == try_get_control_frame(control_stack, cur'.default_label)
          IN  d.err = NoErr =>
                LET f == d.frame[1]
                    ts == IF f.opcode = "Loop" THEN f.start_types ELSE f.end_types
                IN  /\ status' = "running"
                         => value_stack' = DropLast(value_stack, Len(ts))
                    /\ Len(value_stack) < Len(ts) => status' = "err"
                    /\ Len(ts) <= 1
                         => (status' = "running" <=> EndsWith(value_stack, ts))
      ]_vars

\* a br to a loop with inputs [I32] and outputs [] has popped one I32
C24_Witness ==
    /\ cur.op = "Branch" /\ ~cur.is_conditional /\ status = "running"
    /\ Len(control_stack) = 1
    /\ control_stack[1].opcode = "Loop"
    /\ control_stack[1].start_types = <<T_I32>>
    /\ control_stack[1].end_types = <<>>
    /\ control_stack[1].unreachable
    /\ value_stack = <<>>

\* the number of values of type t in s
CountOf(s, t) == Cardinality({i \in 1..Len(s) : s[i] = t})

\* s and ts hold the same types, each as often, in whatever order
SameTypes(s, ts) ==
    /\ Len(s) = Len(ts)
    /\ \A i \in 1..Len(ts) : CountOf(s, ts[i]) = CountOf(ts, ts[i])

C27_ElseOnlyAfterIf ==
    [][ (IsStep("Block") /\ cur'.kind = "Else" /\ control_stack # <<>>) =>
          LET f == Last(control_stack)
              n == Len(f.end_types)
          IN  IF f.opcode = "If"
              THEN status' = "running" =>
                     /\ Len(value_stack) = f.height + n
                     /\ SameTypes(SubSeq(value_stack, f.height + 1, f.height + n),
                                  f.end_types)
                     /\ Front(control_stack') = Front(control_stack)
                     /\ Last(control_stack').opcode = "Else"
                     /\ Last(control_stack').start_types = f.start_types
                     /\ Last(control_stack').end_types = f.end_types
                     /\ Last(control_stack').height = f.height
              ELSE /\ status' = "err"
                   /\ err' = "else_without_if"
                   /\ ErrorStage(err') = "TypeChecking"
      ]_vars

\* C28: an accepted End of a frame of height h and end_types E leaves the
\* control stack one frame shorter and the value stack equal to its h lowest
\* values followed by E, in E's order; an End with no open frame is an error.
C28_EndRestoresStack ==
    [][ (IsStep("Block") /\ cur'.kind = "End") =>
          IF control_stack = <<>> THEN status' = "err"
          ELSE status' = "running" =>
                 LET f == Last(control_stack)
                 IN  /\ control_stack' = Front(control_stack)
                     /\ Len(value_stack) >= f.height
                     /\ value_stack' = SubSeq(value_stack, 1, f.height) \o f.end_types
                     /\ Len(value_stack') = f.height + Len(f.end_types)
      ]_vars

\* an End was accepted and left [F32, I32]: the F32 from below a frame with
\* end_types [I32], or both values from a frame with end_types [F32, I32]
C28_Witness ==
    /\ cur.op = "Block" /\ cur.kind = "End" /\ status = "running"
    /\ control_stack = <<>>
    /\ value_stack = <<T_F32, T_I32>>

\* ------------------------------ properties (validator, locals, arithmetic)
\* C29: local access resolves the identifier, by index or by name, in
\* params ++ locals (index i >= |params| is local i - |params|): GetLocal
\* pushes the local's type, SetLocal pops one value of that type, TeeLocal
\* pops one and pushes it again; an identifier that resolves to no local is
\* a NameResolving error and leaves the value stack unchanged.
C29_LocalAccess ==
    [][ (IsStep("Data") /\ cur'.kind \in {"GetLocal", "SetLocal", "TeeLocal"}) =>
          \A f \in FuncSigs :
            (local_vars = FromIter(f.params \o f.locals) /\ results = f.results) =>
              LET np == Len(f.params)
                  NameAt(i) == IF i <= np THEN f.params[i][1] ELSE f.locals[i - np][1]
                  TypeAt(i) == IF i <= np THEN f.params[i][2] ELSE f.locals[i - np][2]
                  hits == {i \in 1..(np + Len(f.locals)) :
                             \/ cur'.location = usize_to_string(i - 1)
                             \/ NameAt(i) = Some(cur'.location)}
              IN  IF hits = {}
                  THEN /\ status' = "err"
                       /\ ErrorStage(err') = "NameResolving"
                       /\ value_stack' = value_stack
                  ELSE \A i \in hits :
                         CASE cur'.kind = "GetLocal" ->
                                /\ status' = "running"
                                /\ value_stack' = Append(value_stack, TypeAt(i))
                           [] cur'.kind = "SetLocal" ->
                                IF value_stack # <<>> /\ Last(value_stack) = TypeAt(i)
                                THEN /\ status' = "running"
                                     /\ value_stack' = Front(value_stack)
                                ELSE status' = "err"
                           [] cur'.kind = "TeeLocal" ->
                                IF value_stack # <<>> /\ Last(value_stack) = TypeAt(i)
                                THEN /\ status' = "running"
                                     /\ value_stack' = value_stack
                                ELSE status' = "err"
      ]_vars

\* local.tee 1 on the first local (after one parameter) was accepted
C29_Witness ==
    /\ cur.op = "Data" /\ cur.kind = "TeeLocal" /\ cur.location = <<"1">>
    /\ status = "running"
    /\ value_stack # <<>> /\ Last(value_stack) = T_F32

\* C30: Arithmetic{kind, typ} pops two values of type typ and pushes one of
\* type typ, for every kind and typ; when one of the two top values has
\* another type it fails with unexpected-type (TypeChecking), and with fewer
\* than two values with the empty-stack error. (For a single value of
\* another type the claim names both errors; either is admitted.)
C30_ArithmeticPopsTwoPushesOne ==
    [][ IsStep("Arithmetic") =>
          LET t == cur'.typ
              n == Len(value_stack)
              wrongTop == n >= 1 /\ value_stack[n] # t
              wrongSecond == n >= 2 /\ value_stack[n - 1] # t
          IN  IF n >= 2 /\ ~wrongTop /\ ~wrongSecond
              THEN /\ status' = "running"
                   /\ value_stack' = Append(DropLast(value_stack, 2), t)
                   /\ control_stack' = control_stack
              ELSE /\ status' = "err"
                   /\ ErrorStage(err') = "TypeChecking"
                   /\ n >= 2 => err' = "unexpected_type"
                   /\ (n < 2 /\ ~wrongTop) => err' = "empty_stack"
                   /\ (n < 2 /\ wrongTop) => err' \in {"unexpected_type", "empty_stack"}
      ]_vars

\* an F64 multiplication was accepted
C30_Witness ==
    /\ cur.op = "Arithmetic" /\ cur.typ = "F64" /\ cur.kind = "Multiplication"
    /\ status = "running"
    /\ value_stack = <<"F64">>

\* C31: Comparison{kind, typ}: EqualZero pops exactly one value of type typ,
\* every other kind pops exactly two, and either way one I32 is pushed;
\* EqualZero on an empty stack or on a top value of another type is rejected.
C31_ComparisonPopsThenPushesI32 ==
    [][ IsStep("Comparison") =>
          LET t == cur'.typ
              n == Len(value_stack)
              k == IF cur'.kind = "EqualZero" THEN 1 ELSE 2
          IN  IF n >= k /\ \A i \in 1..k : value_stack[n + 1 - i] = t
              THEN /\ status' = "running"
                   /\ value_stack' = Append(DropLast(value_stack, k), "I32")
              ELSE status' = "err"
      ]_vars

\* the source and target number types written in the name of a cast opcode
OpcodeSource(o) ==
    CASE o \in {"I32WrapI64", "F32ConvertI64S", "F32ConvertI64U", "F64ConvertI64S",
                "F64ConvertI64U", "F64ReinterpretI64"} -> "I64"
      [] o \in {"I64ExtendI32S", "I64ExtendI32U", "F32ConvertI32S", "F32ConvertI32U",
                "F64ConvertI32S", "F64ConvertI32U", "F32ReinterpretI32"} -> "I32"
      [] o \in {"I32TruncF32S", "I32TruncF32U", "I64TruncF32S", "I64TruncF32U",
                "F64PromoteF32", "I32ReinterpretF32"} -> "F32"
      [] o \in {"I32TruncF64S", "I32TruncF64U", "I64TruncF64S", "I64TruncF64U",
                "F32DemoteF64", "I64ReinterpretF64"} -> "F64"

OpcodeTarget(o) ==
    CASE o \in {"I32WrapI64", "I32TruncF32S", "I32TruncF32U", "I32TruncF64S",
                "I32TruncF64U", "I32ReinterpretF32"} -> "I32"
      [] o \in {"I64ExtendI32S", "I64ExtendI32U", "I64TruncF32S", "I64TruncF32U",
                "I64TruncF64S", "I64TruncF64U", "I64ReinterpretF64"} -> "I64"
      [] o \in {"F32ConvertI32S", "F32ConvertI32U", "F32ConvertI64S", "F32ConvertI64U",
                "F32DemoteF64", "F32ReinterpretI32"} -> "F32"
      [] o \in {"F64ConvertI32S", "F64ConvertI32U", "F64ConvertI64S", "F64ConvertI64U",
                "F64PromoteF32", "F64ReinterpretI64"} -> "F64"

\* the source and target number types named by a conversion kind
KindSource(k) ==
    CASE k \in {"WrapInt", "SignedConvertI64ToF32", "UnsignedConvertI64ToF32",
                "SignedConvertI64ToF64", "UnsignedConvertI64ToF64",
                "Reinterpret64IToF"} -> "I64"
      [] k \in {"SignedExtend", "UnsignedExtend", "SignedConvertI32ToF32",
                "UnsignedConvertI32ToF32", "SignedConvertI32ToF64",
                "UnsignedConvertI32ToF64", "Reinterpret32IToF"} -> "I32"
      [] k \in {"SignedTruncF32ToI32", "UnsignedTruncF32ToI32", "SignedTruncF32ToI64",
                "UnsignedTruncF32ToI64", "PromoteFloat", "Reinterpret32FToI"} -> "F32"
      [] k \in {"SignedTruncF64ToI32", "UnsignedTruncF64ToI32", "SignedTruncF64ToI64",
                "UnsignedTruncF64ToI64", "DemoteFloat", "Reinterpret64FToI"} -> "F64"

KindTarget(k) ==
    CASE k \in {"WrapInt", "SignedTruncF32ToI32", "UnsignedTruncF32ToI32",
                "SignedTruncF64ToI32", "UnsignedTruncF64ToI32",
                "Reinterpret32FToI"} -> "I32"
      [] k \in {"SignedExtend", "UnsignedExtend", "SignedTruncF32ToI64",
                "UnsignedTruncF32ToI64", "SignedTruncF64ToI64", "UnsignedTruncF64ToI64",
                "Reinterpret64FToI"} -> "I64"
      [] k \in {"SignedConvertI32ToF32", "UnsignedConvertI32ToF32",
                "SignedConvertI64ToF32", "UnsignedConvertI64ToF32", "DemoteFloat",
                "Reinterpret32IToF"} -> "F32"
      [] k \in {"SignedConvertI32ToF64", "UnsignedConvertI32ToF64",
                "SignedConvertI64ToF64", "UnsignedConvertI64ToF64", "PromoteFloat",
                "Reinterpret64IToF"} -> "F64"

\* C32: every cast opcode lowers to a conversion kind whose source and target
\* types are the opcode's, and validating a conversion pops exactly one value
\* of the source type its kind names and pushes exactly one value of the
\* target type; on an empty stack or another top type it is rejected.
C32_ConversionSignatures ==
    [][ /\ (l_op' # None /\ l_op'[1].opcode \in CastOps) =>
              /\ l_out'[1].op = "Conversion"
              /\ KindSource(l_out'[1].c) = OpcodeSource(l_op'[1].opcode)
              /\ KindTarget(l_out'[1].c) = OpcodeTarget(l_op'[1].opcode)
        /\ IsValidateLowered(CastOps) =>
              LET k == l_out[1].c
                  n == Len(value_stack)
              IN  /\ cur' = l_out[1]
                  /\ IF n >= 1 /\ value_stack[n] = KindSource(k)
                     THEN /\ status' = "running"
                          /\ value_stack' = Append(Front(value_stack), KindTarget(k))
                          /\ control_stack' = control_stack
                     ELSE status' = "err"
      ]_vars

\* an f64.promote_f32 was lowered to PromoteFloat and accepted on [I32, F32]
C32_Witness ==
    /\ cur.op = "Conversion" /\ cur.c = "PromoteFloat"
    /\ status = "running"
    /\ value_stack = <<"I32", "F64">>

\* C33: Return is accepted exactly when the value stack ends with the
\* function's result types, the last result on top; it then pops those values
\* and nothing else, and otherwise it is rejected. The control stack is left
\* unchanged either way.
C33_ReturnPopsResults ==
    [][ IsReturn =>
          /\ control_stack' = control_stack
          /\ IF EndsWith(value_stack, results)
             THEN /\ status' = "running"
                  /\ value_stack' = DropLast(value_stack, Len(results))
             ELSE status' = "err"
      ]_vars

\* C34: when an End arrives while the innermost frame is an Else whose
\* enclosing frame is an If, assembly goes on, whatever the labels of the two
\* markers are, with one ConditionalBlock appended to the siblings collected
\* before the If: its label and signature are the If's, its then-children the
\* siblings saved by the Else and its else-children the current siblings.
C34_ElseTakesLabelOfIf ==
    [][ ( /\ tstatus = "running"
          /\ Len(stream') = Len(stream) + 1
          /\ IsMarker(Last(stream'), "End")
          /\ Len(wait_stack) >= 2
          /\ Last(wait_stack).mark = "Else"
          /\ Last(Front(wait_stack)).mark = "If" )
        => LET else_frame == Last(wait_stack)
               if_frame == Last(Front(wait_stack))
           IN  /\ tstatus' = "running"
               /\ wait_stack' = Front(Front(wait_stack))
               /\ current' = Append(if_frame.nodes,
                                    ConditionalBlock(if_frame.label, if_frame.inout,
                                                     else_frame.nodes, current))
      ]_vars

\* C35: every validate_function call starts from the same validator state
\* for the same function, whatever an earlier call has left behind: both
\* stacks are empty, the locals and results are the function's, and the
\* global, memory and function tables are the ones the validator was built
\* with, which no step ever changes.
C35_StartsFromEmptyStacks ==
    [][ /\ UNCHANGED <<globals, memory_names, functions, structure>>
        /\ (status # "running" /\ status' = "running") =>
              /\ value_stack' = <<>>
              /\ control_stack' = <<>>
              /\ \E f \in FuncSigs :
                    /\ results' = f.results
                    /\ local_vars' = FromIter(f.params \o f.locals)
      ]_vars

\* a call has failed midway and left values and an open frame behind; the
\* next call starts from this state
C35_Witness ==
    /\ status = "err"
    /\ value_stack # <<>>
    /\ control_stack # <<>>

\* C36: in every validator state the value stack is at least as long as the
\* height of the top control frame, and the frame heights never decrease
\* from the bottom to the top of the control stack: no instruction consumes
\* a value that was on the stack before the open frame was entered.
C36_StackNeverBelowFrameHeight ==
    /\ control_stack # <<>> => Len(value_stack) >= Last(control_stack).height
    /\ \A i \in 1..(Len(control_stack) - 1) :
          control_stack[i].height <= control_stack[i + 1].height

\* C37: validate_function returns Ok only if the control stack is empty when
\* the body ends: every frame opened in the body was closed.
C37_OkOnlyWithEveryFrameClosed ==
    [][ (IsFinish /\ status' = "ok") => control_stack = <<>> ]_vars

\* C38: a branch label that is a name denotes the innermost open frame that
\* carries the name: the branch is checked against that frame's label types,
\* also when an outer frame has the same name; a name that no open frame
\* carries is a label-resolution error (NameResolving).
C38_NameDenotesInnermostFrame ==
    [][ (IsSingleBranch /\ try_name_to_index(cur'.default_label) < 0) =>
          LET named == {k \in 1..Len(control_stack) :
                          control_stack[k].label = Some(cur'.default_label)}
          IN  IF named = {}
              THEN /\ status' = "err"
                   /\ err' = "label_resolution"
                   /\ ErrorStage(err') = "NameResolving"
              ELSE LET k == CHOOSE i \in named : \A j \in named : j <= i
                       r == branch_to(cur', value_stack, control_stack,
                                      label_types(control_stack[k]))
                   IN  /\ err' = r.err
                       /\ value_stack' = r.vs
                       /\ control_stack' = r.cs
      ]_vars

\* the non-block instructions of a forest in depth-first, left-to-right
\* order (then-children before else-children), each with its nesting depth
RECURSIVE Flatten(_, _)
Flatten(nodes, depth) ==
    IF nodes = <<>> THEN <<>>
    ELSE Flatten(Front(nodes), depth)
         \o (CASE Last(nodes).node = "NonBlock" -> << <<Last(nodes).ins, depth>> >>
               [] Last(nodes).node = "SingleBlock" ->
                     Flatten(Last(nodes).inner_nodes, depth + 1)
               [] Last(nodes).node = "ConditionalBlock" ->
                     Flatten(Last(nodes).then_nodes, depth + 1)
                     \o Flatten(Last(nodes).else_nodes, depth + 1))

\* the non-block instructions of a stream in order, each with the number of
\* blocks open where it stands
RECURSIVE StreamLeaves(_)
StreamLeaves(s) ==
    IF s = <<>> THEN <<>>
    ELSE StreamLeaves(Front(s))
         \o (IF Last(s).op = "Block" THEN <<>>
             ELSE << <<Last(s), Len(OpenKinds(Front(s)))>> >>)

\* C39: for every stream that assembles into a tree, the depth-first,
\* left-to-right traversal of the tree visits exactly the non-block
\* instructions of the stream, each once and in their order, and each at a
\* depth equal to the number of blocks open at it in the stream.
C39_TraversalIsTheStream ==
    tstatus = "ok" => Flatten(current, 0) = StreamLeaves(stream)

\* a tree was produced whose root holds an if with an instruction in each
\* branch
C39_Witness ==
    /\ tstatus = "ok"
    /\ \E n \in 1..Len(current) :
          /\ current[n].node = "ConditionalBlock"
          /\ current[n].then_nodes # <<>>
          /\ current[n].else_nodes # <<>>

\* C40: converting the SerializedNumber of an integer constant to u32
\* succeeds exactly when the integer fits in 32 bits (its high word is zero)
\* and then returns the integer; otherwise it fails with the
\* number-too-large error.
C40_U32ExactlyWhenItFits ==
    n_u32 # None =>
        /\ n_u32[1].ok <=> n_value[1].hi = 0
        /\ n_u32[1].ok => n_u32[1].value = n_value[1].lo
        /\ ~n_u32[1].ok => n_u32[1].err = "number_to_large"

====
